---- MODULE Spec2Model ----
(***************************************************************************)
(* A model of tm-compiler: the Turing machine representation and its       *)
(* simplifier (data/machine.rs), the machine generator (generator.rs), the *)
(* tape ownership checker (annotater/ownership_checker.rs), the type graph  *)
(* solver (data/types.rs, annotater/type_checker.rs) and the post-type      *)
(* simplifier (main.rs, simplifier).                                        *)
(***************************************************************************)
EXTENDS Integers, Sequences, FiniteSets, TLC

VARIABLES
    state_count,   \* Machine.state_count
    transitions,   \* Machine.transitions
    labels,        \* history: labels[i + 1] is what state index i was created as
    mpc,           \* position of the machine's user: "build", "simplify", "done"
    ast,           \* the expression handed to generate or ownership_check (NoExp when none)
    consumed,      \* ownership_check: the consumed set when the check returned
    oresult,       \* ownership_check: "none" before the call, then "ok" or the error
    uses,          \* history: the uses of Tape-typed identifiers, in traversal order
    visits,        \* history: the calls of traverse, in order
    unresolved_count,  \* TypeGraph.unresolved_count
    casts,         \* TypeGraph.casts
    resolved,      \* TypeGraph.resolved
    root,          \* the type check_exp gave the program (NoType when there is none)
    tresult,       \* what resolve returned: NoErr before the call, Ok, or the error
    recorded,      \* history: the casts registered with TypeGraph::cast
    assigns,       \* history: the inserts into TypeGraph.resolved, in order
    decisions,     \* history: the variables resolve's loop examined, in order
    cast_from,     \* Type::can_cast: self
    cast_to,       \* Type::can_cast: to
    cast_ok,       \* Type::can_cast: "none" before the call, then the result
    simplified,    \* the program after the post-type simplifier (NoExp when none)
    sresult,       \* compile or a pass: "none" before the call, then "Ok", "Err" or "panic"
    changed,       \* do_applications: the flag `changed` it was handed
    reentries,     \* history: the passes that handed the expression to rec, outermost first
    count,         \* resolve_unions: count, the number of ids given out
    union_casts,   \* resolve_unions: casts, what collect_casts gathered
    types,         \* resolve_unions: resolved, what generate_resolved returned
    alphabet,      \* compile: args.alphabet, the declared alphabet
    collected,     \* Exp::union_to_set: the set `symbols` it filled
    other,         \* Exp::eq_ignore_annot: other
    third,         \* a third expression, compared with self and other
    eq,            \* Exp::eq_ignore_annot: what the calls returned (<<>> before them)
    source,        \* tokenize: src, as the sequence of its characters
    chars,         \* tokenize: src.chars(), the characters not pushed yet
    lexer,         \* tokenize: state, the lexer's State (NoState when there is none)
    lexed          \* tokenize: NoErr before it returned, then Ok with the tokens, or the error

ovars == <<consumed, oresult, uses, visits>>
tvars == <<unresolved_count, casts, resolved, root, tresult, recorded, assigns, decisions>>
cvars == <<cast_from, cast_to, cast_ok>>
svars == <<simplified, sresult, changed, reentries>>
uvars == <<count, union_casts, types>>
evars == <<collected, other, third, eq>>
lvars == <<source, chars, lexer, lexed>>
vars == <<state_count, transitions, labels, mpc, ast, ovars, tvars, cvars, svars, uvars,
          alphabet, evars, lvars>>

(***************************************************************************)
(* Bounds.                                                                 *)
(***************************************************************************)
MaxStates == 4
MaxTransitions == 2
MaxDepth == 2
MaxArms == 2

\* Option<String>: None, or Some(letter).
None == "None"
Letters == {"a", "b"}
OptSymbol == Letters \cup {None}
\* The letters of the transitions pushed by hand.
PushLetters == {"a"}

Direction == {"Left", "Right", "Stay"}

Min(S) == CHOOSE x \in S : \A y \in S : x <= y

(***************************************************************************)
(* data/machine.rs                                                         *)
(***************************************************************************)
Transition(fs, fsym, ts, tsym, d) ==
    [from |-> <<fs, fsym>>, to |-> <<ts, tsym>>, dir |-> d]

\* Machine::new
MachineNew == [state_count |-> 3, transitions |-> <<>>]

\* Machine::push_state: the machine after the push (the new index is the old count).
push_state(m) == [m EXCEPT !.state_count = @ + 1]

\* Machine::push_transition
push_transition(m, t) == [m EXCEPT !.transitions = Append(@, t)]

\* Machine::indeg
indeg(m, state) ==
    Cardinality({i \in DOMAIN m.transitions : m.transitions[i].to[1] = state})

\* Machine::outdeg
outdeg(m, state) ==
    Cardinality({i \in DOMAIN m.transitions : m.transitions[i].from[1] = state})

Renumber(t, state) ==
    [t EXCEPT !.from[1] = IF @ > state THEN @ - 1 ELSE @,
              !.to[1] = IF @ > state THEN @ - 1 ELSE @]

\* Machine::remove_state
remove_state(m, state) ==
    LET Keep(t) == t.from[1] # state /\ t.to[1] # state
        kept == SelectSeq(m.transitions, Keep)
    IN  [state_count |-> m.state_count - 1,
         transitions |-> [i \in DOMAIN kept |-> Renumber(kept[i], state)]]

\* Machine::merge_states
merge_states(m, l, r) ==
    IF l = r THEN m
    ELSE LET lhs == IF l > r THEN r ELSE l
             rhs == IF l > r THEN l ELSE r
             moved == [i \in DOMAIN m.transitions |->
                         [m.transitions[i] EXCEPT
                             !.from[1] = IF @ = rhs THEN lhs ELSE @,
                             !.to[1] = IF @ = rhs THEN lhs ELSE @]]
         IN  remove_state([m EXCEPT !.transitions = moved], rhs)

NoTransition == [none |-> TRUE]

\* Machine::merge_transitions: Some(transition), or NoTransition for None.
merge_transitions(incoming, outgoing) ==
    LET readOk == incoming.to[2] = outgoing.from[2] \/ outgoing.from[2] = None
        writeOk == incoming.to[2] = outgoing.to[2] \/ outgoing.to[2] = None
    IN
    IF incoming.to[1] # outgoing.from[1] THEN NoTransition
    ELSE IF incoming.dir = "Stay" /\ outgoing.dir = "Stay" THEN
        IF readOk THEN
            IF writeOk
            THEN [from |-> incoming.from, to |-> <<outgoing.to[1], incoming.to[2]>>, dir |-> "Stay"]
            ELSE [from |-> incoming.from, to |-> outgoing.to, dir |-> "Stay"]
        ELSE NoTransition
    ELSE IF incoming.dir = "Stay" THEN
        IF readOk THEN
            IF writeOk
            THEN [from |-> incoming.from, to |-> <<outgoing.to[1], incoming.to[2]>>, dir |-> outgoing.dir]
            ELSE [from |-> incoming.from, to |-> outgoing.to, dir |-> outgoing.dir]
        ELSE NoTransition
    ELSE IF outgoing.dir = "Stay" THEN
        IF readOk /\ writeOk
        THEN [from |-> incoming.from, to |-> <<outgoing.to[1], incoming.to[2]>>, dir |-> incoming.dir]
        ELSE NoTransition
    ELSE NoTransition

\* simplify, lines 51-56: a known read symbol becomes the write of a None write.
PropagateWrites(m) ==
    LET ts == m.transitions
    IN  [m EXCEPT !.transitions =
            [i \in DOMAIN ts |->
                IF ts[i].from[2] # None /\ ts[i].to[2] = None
                THEN [ts[i] EXCEPT !.to = <<ts[i].to[1], ts[i].from[2]>>]
                ELSE ts[i]]]

\* simplify, lines 58-69: the transitions through which two states may be joined.
Joinable(m, t) ==
    /\ t.from[2] = None /\ t.to[2] = None
    /\ t.dir = "Stay"
    /\ (indeg(m, t.to[1]) = 1 \/ outdeg(m, t.from[1]) = 1)
    /\ t.to[1] # 1
    /\ t.to[1] # 2

\* simplify, lines 90-96: what retain keeps.
Useful(t) ==
    \/ ~(t.from[2] = None /\ t.to[2] = None)
    \/ t.dir # "Stay"
    \/ t.from[1] # t.to[1]

\* simplify, lines 102-103: the states dead-state removal may remove.
Dead(m, s) == indeg(m, s) = 0 /\ s # 0 /\ s # 1 /\ s # 2

\* simplify, lines 51-56, on the loop's running record [m, changed, removed]:
\* removed lists the states handed to remove_state so far, in order.
StepPropagate(r) ==
    LET m1 == PropagateWrites(r.m)
    IN  [r EXCEPT !.m = m1, !.changed = r.changed \/ m1 # r.m]

\* simplify, lines 58-72: find_map takes the first joinable transition.
StepJoin(r) ==
    LET js == {i \in DOMAIN r.m.transitions : Joinable(r.m, r.m.transitions[i])}
        first == r.m.transitions[Min(js)].from[1]
        second == r.m.transitions[Min(js)].to[1]
    IN  IF js = {} THEN r
        ELSE [m |-> merge_states(r.m, first, second),
              changed |-> TRUE,
              removed |-> IF first = second THEN r.removed
                          ELSE Append(r.removed, IF first > second THEN first ELSE second)]

\* simplify, lines 74-88: the first state with one incoming and one outgoing
\* transition is replaced by their merge, when they merge.
StepCoalesce(r) ==
    LET ts == r.m.transitions
        cs == {s \in 0..(r.m.state_count - 1) : indeg(r.m, s) = 1 /\ outdeg(r.m, s) = 1}
        state == Min(cs)
        incoming == ts[Min({i \in DOMAIN ts : ts[i].to[1] = state})]
        outgoing == ts[Min({i \in DOMAIN ts : ts[i].from[1] = state})]
        t == merge_transitions(incoming, outgoing)
    IN  IF cs = {} THEN r
        ELSE IF t = NoTransition THEN r
        ELSE [m |-> remove_state(push_transition(r.m, t), state),
              changed |-> TRUE,
              removed |-> Append(r.removed, state)]

\* simplify without the removal of useless transitions.
StepRetainAll(r) == r

\* simplify, lines 90-99
StepRetain(r) ==
    LET kept == SelectSeq(r.m.transitions, Useful)
    IN  [r EXCEPT !.m.transitions = kept,
                  !.changed = r.changed \/ Len(kept) # Len(r.m.transitions)]

\* simplify, lines 101-107
StepDead(r) ==
    LET ds == {s \in 0..(r.m.state_count - 1) : Dead(r.m, s)}
    IN  IF ds = {} THEN r
        ELSE [m |-> remove_state(r.m, Min(ds)),
              changed |-> TRUE,
              removed |-> Append(r.removed, Min(ds))]

\* One iteration of the loop of Machine::simplify (lines 48-112): the machine after
\* it, whether `changed` was set, and the states handed to remove_state, in order.
SimplifyIter(m) ==
    StepDead(StepRetain(StepCoalesce(StepJoin(StepPropagate(
        [m |-> m, changed |-> FALSE, removed |-> <<>>])))))

(***************************************************************************)
(* data/exp.rs: expressions.  A node is a record whose k field names the   *)
(* variant; typ is the Type of its annotation (the location is left out).  *)
(***************************************************************************)
TSymbol == [t |-> "Symbol"]
TUnion == [t |-> "Union"]
TTape == [t |-> "Tape"]
TFunction(a, r) == [t |-> "Function", arg |-> a, ret |-> r]
TTapeTape == TFunction(TTape, TTape)

Identifier(id, typ) == [k |-> "Identifier", id |-> id, typ |-> typ]
Symbol(sym) == [k |-> "Symbol", sym |-> sym, typ |-> TSymbol]
Abort(typ) == [k |-> "Abort", typ |-> typ]
Union(lhs, rhs) == [k |-> "Union", lhs |-> lhs, rhs |-> rhs, typ |-> TUnion]
Match(exp, arms, typ) == [k |-> "Match", exp |-> exp, arms |-> arms, typ |-> typ]
\* Function { arg, exp }: the parameter name is the field `param`, since the field
\* `arg` of an Application holds an expression.
Function(arg, exp, typ) == [k |-> "Function", param |-> arg, exp |-> exp, typ |-> typ]
Application(func, arg, typ) == [k |-> "Application", func |-> func, arg |-> arg, typ |-> typ]
\* Node::Let: binds is the sequence of the bindings, each an id and its expression.
Let(binds, exp, typ) == [k |-> "Let", binds |-> binds, exp |-> exp, typ |-> typ]
LetBind(id, exp) == [id |-> id, exp |-> exp]

\* No expression at all.
NoExp == [k |-> "none"]

PatUnion(u) == [p |-> "Union", u |-> u]
PatAny == [p |-> "Any"]
Arm(catch_id, pat, exp) == [catch_id |-> catch_id, pat |-> pat, exp |-> exp]

\* Exp::union_to_set: whether the expression is a union of symbols, and the
\* symbols inserted into `symbols` up to the point where it was found not to be.
RECURSIVE union_to_set(_, _)
union_to_set(e, symbols) ==
    IF e.k = "Symbol" THEN [ok |-> TRUE, set |-> symbols \cup {e.sym}]
    ELSE IF e.k = "Union" THEN
        LET l == union_to_set(e.lhs, symbols)
        IN  IF l.ok THEN union_to_set(e.rhs, l.set) ELSE l
    ELSE [ok |-> FALSE, set |-> symbols]

\* The order in which a HashSet of letters is iterated: the letters of `order`
\* that are in the set (`order` is any permutation of the letters).
IterOrder(set, order) == SelectSeq(order, LAMBDA x : x \in set)

LetterOrders ==
    {o \in [1..Cardinality(Letters) -> Letters] : \A x \in Letters : \E i \in DOMAIN o : o[i] = x}

(***************************************************************************)
(* generator.rs.  Every generate_* gives [ok, m]: what the function        *)
(* returned and the machine it left.  A failed assert or unwrap is         *)
(* ok = FALSE as well (generate then panics on its own assert).            *)
(***************************************************************************)
Gen(ok, m) == [ok |-> ok, m |-> m]

\* generate_set
generate_set(func, m, src, dst) ==
    IF /\ func.k = "Application"
       /\ func.func.k = "Identifier" /\ func.func.id = "set"
       /\ func.arg.k = "Symbol"
    THEN Gen(TRUE, push_transition(m, Transition(src, None, dst, func.arg.sym, "Stay")))
    ELSE Gen(FALSE, m)

\* generate_move
generate_move(func, m, src, dst) ==
    IF func.k = "Identifier" /\ func.id \in {"prev", "next"}
    THEN Gen(TRUE, push_transition(m,
            Transition(src, None, dst, None, IF func.id = "prev" THEN "Left" ELSE "Right")))
    ELSE Gen(FALSE, m)

\* generate_halt
generate_halt(func, m, src) ==
    IF func.k = "Identifier" /\ func.id \in {"accept", "reject"}
    THEN Gen(TRUE, push_transition(m,
            Transition(src, None, IF func.id = "accept" THEN 1 ELSE 2, None, "Stay")))
    ELSE Gen(FALSE, m)

\* A generate_match whose arm transitions forget the read symbol (from: (s, None)).
RECURSIVE PushArmSymbolsAnyRead(_, _, _, _)
PushArmSymbolsAnyRead(m, syms, s, a) ==
    IF syms = <<>> THEN m
    ELSE PushArmSymbolsAnyRead(push_transition(m, Transition(s, None, a, Head(syms), "Stay")),
                               Tail(syms), s, a)

\* generate_match, lines 110-116: one transition per symbol of the arm, in the
\* set's iteration order.
RECURSIVE PushArmSymbols(_, _, _, _)
PushArmSymbols(m, syms, s, a) ==
    IF syms = <<>> THEN m
    ELSE PushArmSymbols(push_transition(m, Transition(s, Head(syms), a, Head(syms), "Stay")),
                        Tail(syms), s, a)

RECURSIVE generate_function(_, _, _, _, _, _)
RECURSIVE generate_from_tape(_, _, _, _, _, _, _)
RECURSIVE generate_application(_, _, _, _, _, _, _)
RECURSIVE generate_match(_, _, _, _, _, _, _)
RECURSIVE GenerateArms(_, _, _, _, _, _, _)
RECURSIVE generate_y(_, _, _, _, _, _)

\* generate_y
generate_y(func, m, src, dst, rec, order) ==
    IF /\ func.k = "Application"
       /\ func.func.k = "Identifier" /\ func.func.id = "Y"
       /\ func.arg.k = "Function"
    THEN LET s == m.state_count
             m1 == push_transition(push_state(m), Transition(src, None, s, None, "Stay"))
             rec1 == [id \in DOMAIN rec \cup {func.arg.param} |->
                        IF id = func.arg.param THEN s ELSE rec[id]]
         IN  generate_function(func.arg.exp, m1, s, dst, rec1, order)
    ELSE Gen(FALSE, m)

\* generate_function
generate_function(e, m, src, dst, rec, order) ==
    IF generate_set(e, m, src, dst).ok THEN generate_set(e, m, src, dst)
    ELSE IF generate_move(e, m, src, dst).ok THEN generate_move(e, m, src, dst)
    ELSE IF generate_halt(e, m, src).ok THEN generate_halt(e, m, src)
    ELSE IF e.k = "Application" /\ e.func.k = "Identifier" /\ e.func.id = "Y"
            /\ e.arg.k = "Function"
    THEN generate_y(e, m, src, dst, rec, order)
    ELSE IF e.k = "Function" THEN generate_from_tape(e.exp, e.param, m, src, dst, rec, order)
    ELSE IF e.k = "Identifier" THEN
        IF e.id \in DOMAIN rec
        THEN Gen(TRUE, push_transition(m, Transition(src, None, rec[e.id], None, "Stay")))
        ELSE Gen(FALSE, m)
    ELSE IF e.k = "Abort" THEN Gen(TRUE, m)
    ELSE Gen(FALSE, m)

\* generate_from_tape
generate_from_tape(e, id, m, src, dst, rec, order) ==
    IF e.k = "Identifier" THEN
        IF e.id = id
        THEN Gen(TRUE, push_transition(m, Transition(src, None, dst, None, "Stay")))
        ELSE Gen(FALSE, m)
    ELSE IF e.k = "Abort" THEN Gen(TRUE, m)
    ELSE IF e.k = "Application" THEN generate_application(e, id, m, src, dst, rec, order)
    ELSE generate_match(e, id, m, src, dst, rec, order)

\* generate_application
generate_application(e, id, m, src, dst, rec, order) ==
    IF e.k = "Application"
    THEN LET s == m.state_count
             a == generate_from_tape(e.arg, id, push_state(m), src, s, rec, order)
         IN  IF a.ok THEN generate_function(e.func, a.m, s, dst, rec, order) ELSE a
    ELSE Gen(FALSE, m)

\* generate_match, lines 101-119: the arms from the i-th on.
GenerateArms(arms, i, id, g, s, dst, rec) ==
    IF i > Len(arms) \/ ~g.ok THEN g
    ELSE LET u == IF arms[i].pat.p = "Union"
                  THEN union_to_set(arms[i].pat.u, {})
                  ELSE [ok |-> FALSE, set |-> {}]
             a == g.m.state_count
             m1 == PushArmSymbols(push_state(g.m), IterOrder(u.set, g.order), s, a)
             body == generate_from_tape(arms[i].exp, id, m1, a, dst, rec, g.order)
         IN  IF ~u.ok THEN [g EXCEPT !.ok = FALSE]
             ELSE IF u.set = {} THEN GenerateArms(arms, i + 1, id, g, s, dst, rec)
             ELSE GenerateArms(arms, i + 1, id,
                               [ok |-> body.ok, m |-> body.m, order |-> g.order],
                               s, dst, rec)

\* generate_match
generate_match(e, id, m, src, dst, rec, order) ==
    IF e.k = "Match" THEN
        IF e.exp.k = "Identifier" /\ e.exp.id = id
        THEN LET s == m.state_count
                 scrut == generate_from_tape(e.exp, id, push_state(m), src, s, rec, order)
                 done == GenerateArms(e.arms, 1, id,
                                      [ok |-> scrut.ok, m |-> scrut.m, order |-> order],
                                      s, dst, rec)
             IN  Gen(done.ok, done.m)
        ELSE Gen(FALSE, m)
    ELSE Gen(FALSE, m)

\* generate, lines 8-9: the machine before simplify.
generate(e, order) == generate_function(e, MachineNew, 0, 1, <<>>, order)

(***************************************************************************)
(* History of state identities: removing index s drops its label and moves *)
(* every later label down by one, as remove_state renumbers.               *)
(***************************************************************************)
RECURSIVE DropLabels(_, _)
DropLabels(ls, removed) ==
    IF removed = <<>> THEN ls
    ELSE LET s == Head(removed)
             after == IF s + 1 \in DOMAIN ls
                      THEN [i \in 1..(Len(ls) - 1) |-> IF i <= s THEN ls[i] ELSE ls[i + 1]]
                      ELSE ls
         IN  DropLabels(after, Tail(removed))

InitialLabels == <<"initial", "accept", "reject">>

Machine == [state_count |-> state_count, transitions |-> transitions]

\* No type, and no result yet.
NoType == [t |-> "none"]
NoErr == [kind |-> "none"]

\* TypeGraph::new, with nothing checked or cast yet.
TypesIdle ==
    /\ unresolved_count = 0 /\ casts = <<>> /\ resolved = <<>>
    /\ root = NoType /\ tresult = NoErr
    /\ recorded = <<>> /\ assigns = <<>> /\ decisions = <<>>

\* Type::can_cast has not been called.
CastIdle == cast_from = NoType /\ cast_to = NoType /\ cast_ok = "none"

\* No method of Exp has been called on its own.
ExpIdle == collected = {} /\ other = NoExp /\ third = NoExp /\ eq = <<>>

\* tokenize has not been called.
NoState == [none |-> TRUE]

LexIdle == source = <<>> /\ chars = <<>> /\ lexer = NoState /\ lexed = NoErr

\* The post-type simplifier has not run.
SimplifyIdle ==
    simplified = NoExp /\ sresult = "none" /\ changed = FALSE /\ reentries = <<>>

\* resolve_unions has not been called, and no alphabet is declared.
UnionsIdle == count = 0 /\ union_casts = <<>> /\ types = <<>> /\ alphabet = {}

\* ownership_check has not been called.
OwnIdle == consumed = {} /\ oresult = "none" /\ uses = <<>> /\ visits = <<>>

(***************************************************************************)
(* The machine under arbitrary use: Machine::new, then any sequence of     *)
(* push_state, push_transition and simplify.                               *)
(***************************************************************************)
InitMachine ==
    /\ state_count = MachineNew.state_count
    /\ transitions = MachineNew.transitions
    /\ labels = InitialLabels
    /\ mpc = "build"
    /\ ast = NoExp
    /\ OwnIdle
    /\ TypesIdle
    /\ CastIdle
    /\ ExpIdle
    /\ LexIdle
    /\ SimplifyIdle
    /\ UnionsIdle

PushState ==
    /\ mpc \in {"build", "done"}
    /\ state_count < MaxStates
    /\ state_count' = push_state(Machine).state_count
    /\ labels' = Append(labels, "minted")
    /\ mpc' = "build"
    /\ UNCHANGED <<transitions, ast, evars, lvars, uvars, alphabet, ovars, tvars, cvars, svars>>

PushTransition ==
    /\ mpc \in {"build", "done"}
    /\ Len(transitions) < MaxTransitions
    /\ \E fs \in 0..(state_count - 1), ts \in 0..(state_count - 1),
          fsym \in PushLetters \cup {None}, tsym \in PushLetters \cup {None}, d \in Direction :
            transitions' = push_transition(Machine, Transition(fs, fsym, ts, tsym, d)).transitions
    /\ mpc' = "build"
    /\ UNCHANGED <<state_count, labels, ast, evars, lvars, uvars, alphabet, ovars, tvars, cvars, svars>>

\* The call of Machine::simplify.
SimplifyCall ==
    /\ mpc = "build"
    /\ mpc' = "simplify"
    /\ UNCHANGED <<state_count, transitions, labels, ast, evars, lvars, uvars, alphabet, ovars, tvars, cvars, svars>>

\* One iteration of simplify's loop; the loop is left when nothing changed.
SimplifyLoop ==
    /\ mpc = "simplify"
    /\ LET r == SimplifyIter(Machine)
       IN  /\ state_count' = r.m.state_count
           /\ transitions' = r.m.transitions
           /\ labels' = DropLabels(labels, r.removed)
           /\ mpc' = IF r.changed THEN "simplify" ELSE "done"
    /\ UNCHANGED <<ast, evars, lvars, uvars, alphabet, ovars, tvars, cvars, svars>>

NextMachine == PushState \/ PushTransition \/ SimplifyCall \/ SimplifyLoop

SpecMachine == InitMachine /\ [][NextMachine]_vars

(***************************************************************************)
(* The inputs of generate: expressions in canonical form, of type          *)
(* tape -> tape, whose match arms have pairwise disjoint pattern sets.     *)
(***************************************************************************)
TapeId == Identifier("t", TTape)

BuiltinFuncs(self) ==
    {Application(Identifier("set", TFunction(TSymbol, TTapeTape)), Symbol(a), TTapeTape) :
        a \in Letters}
    \cup {Identifier(n, TTapeTape) : n \in {"next", "prev", "accept", "reject"}}
    \cup (IF self THEN {Identifier("self", TTapeTape)} ELSE {})

\* The constant patterns over the letters: single symbols and unions of two.
ConstPatterns ==
    {Symbol(a) : a \in Letters}
    \cup {Union(Symbol(p[1]), Symbol(p[2])) :
            p \in {q \in Letters \X Letters : q[1] # q[2]}}

PatLetters(pat) == union_to_set(pat.u, {}).set

DisjointArms(arms) ==
    \A i \in DOMAIN arms : \A j \in DOMAIN arms :
        i < j => PatLetters(arms[i].pat) \cap PatLetters(arms[j].pat) = {}

ArmSeqs(bodies, n) ==
    UNION {[1..len -> {Arm(None, PatUnion(p), b) : p \in ConstPatterns, b \in bodies}] :
              len \in 1..n}

RECURSIVE CanonBodies(_, _)
CanonFuncs(d, self) ==
    BuiltinFuncs(self) \cup {Function("t", b, TTapeTape) : b \in CanonBodies(d, self)}

CanonBodies(d, self) ==
    IF d = 0 THEN {TapeId, Abort(TTape)}
    ELSE LET prev == CanonBodies(d - 1, self)
         IN  prev
             \cup {Application(f, b, TTape) : f \in CanonFuncs(d - 1, self), b \in prev}
             \cup {Match(TapeId, arms, TTape) :
                     arms \in {as \in ArmSeqs(prev, MaxArms) : DisjointArms(as)}}

CanonPrograms ==
    {Function("t", b, TTapeTape) : b \in CanonBodies(MaxDepth, FALSE)}
    \cup {Application(Identifier("Y", TFunction(TFunction(TTapeTape, TTapeTape), TTapeTape)),
                      Function("self", Function("t", b, TTapeTape),
                               TFunction(TTapeTape, TTapeTape)),
                      TTapeTape) : b \in CanonBodies(MaxDepth, TRUE)}
    \cup BuiltinFuncs(FALSE)
    \cup {Abort(TTapeTape)}

(***************************************************************************)
(* generate on a canonical program: construction, then simplify.           *)
(***************************************************************************)
InitGen ==
    /\ state_count = MachineNew.state_count
    /\ transitions = MachineNew.transitions
    /\ labels = InitialLabels
    /\ mpc = "generate"
    /\ ast \in CanonPrograms
    /\ OwnIdle
    /\ TypesIdle
    /\ CastIdle
    /\ ExpIdle
    /\ LexIdle
    /\ SimplifyIdle
    /\ UnionsIdle

\* generate, lines 8-10, up to the call of simplify.
Generate ==
    /\ mpc = "generate"
    /\ \E order \in LetterOrders :
        LET g == generate(ast, order)
        IN  /\ state_count' = g.m.state_count
            /\ transitions' = g.m.transitions
            /\ labels' = InitialLabels \o [i \in 1..(g.m.state_count - 3) |-> "minted"]
            /\ mpc' = IF g.ok THEN "simplify" ELSE "panic"
    /\ UNCHANGED <<ast, evars, lvars, uvars, alphabet, ovars, tvars, cvars, svars>>

NextGen == Generate \/ SimplifyLoop

SpecGen == InitGen /\ [][NextGen]_vars

\* The transitions of state s enabled on read symbol x: from-symbol None is
\* enabled on every symbol, Some(y) on y alone.
EnabledOn(s, x) ==
    {i \in DOMAIN transitions :
        /\ transitions[i].from[1] = s
        /\ transitions[i].from[2] \in {None, x}}

Deterministic ==
    \A s \in 0..(state_count - 1) : \A x \in Letters : Cardinality(EnabledOn(s, x)) <= 1

\* C1: the machine generate returns for a canonical program with pairwise disjoint
\* arm patterns has at most one transition enabled per (state, read symbol).
C1_GeneratedMachineDeterministic ==
    (ast # NoExp /\ mpc = "done") => Deterministic

\* C1 witness: generate returned a machine in which some state branches on the
\* read symbol and simplify joined or removed states on the way.
C1_Witness ==
    /\ ast # NoExp /\ mpc = "done"
    /\ \E i \in DOMAIN transitions : \E j \in DOMAIN transitions :
        /\ i # j
        /\ transitions[i].from[1] = transitions[j].from[1]
        /\ transitions[i].from[2] # None
    /\ \E i \in DOMAIN transitions : transitions[i].from[2] = None
    /\ Deterministic

\* C2: in every machine reachable from Machine::new by push_state, push_transition
\* and simplify there are at least three states, and indices 0, 1 and 2 are still
\* the states created as initial, accepting and rejecting: simplify neither removes
\* nor renumbers them.
C2_ReservedStatesKept ==
    /\ state_count >= 3
    /\ Len(labels) >= 3
    /\ SubSeq(labels, 1, 3) = InitialLabels

(***************************************************************************)
(* annotater/ownership_checker.rs.  traverse threads [err, consumed, uses,  *)
(* visits]: err is "" while the traversal goes on and the error once a call *)
(* returned Err (every caller passes it up with `?`); uses and visits are   *)
(* history.  A node is named by its path from the root: 1 and 2 are an      *)
(* application's func and arg, 0 a match's scrutinee, i its i-th arm, 1 a   *)
(* function's body.                                                        *)
(***************************************************************************)
OwnDepth == 3

AlreadyConsumed == "Tape being used was already consumed"
ReturnsOther == "Function receives tape as argument but returns neither tape nor symbol"

\* A traverse that consumes the tape at borrowed use-sites too.
UseTapeAlwaysConsumes(set, id, is_ref) ==
    IF id \in set THEN [err |-> TRUE, consumed |-> set]
    ELSE [err |-> FALSE, consumed |-> set \cup {id}]

\* traverse, lines 12-21: a Tape-typed identifier.
UseTape(set, id, is_ref) ==
    IF id \in set THEN [err |-> TRUE, consumed |-> set]
    ELSE IF ~is_ref THEN [err |-> FALSE, consumed |-> set \cup {id}]
    ELSE [err |-> FALSE, consumed |-> set]

\* A traverse that takes every tape argument as owned, whatever is returned.
ArgModeAllOwned(func_arg_t, func_ret_t) == "owned"

\* traverse, lines 50-66: how the argument of an application is traversed.
ArgMode(func_arg_t, func_ret_t) ==
    IF func_arg_t = TTape /\ func_ret_t = TSymbol THEN "borrowed"
    ELSE IF func_arg_t = TTape /\ func_ret_t # TTape THEN "rejected"
    ELSE "owned"

RECURSIVE traverse(_, _, _, _)
RECURSIVE TraverseArms(_, _, _, _, _, _)

\* traverse, lines 28-36: the arms from the i-th on; st.consumed is `consumed`.
TraverseArms(arms, i, st, initial_set, is_ref, path) ==
    IF i > Len(arms) THEN st
    ELSE LET arm_set == IF arms[i].catch_id # None
                        THEN initial_set \ {arms[i].catch_id}
                        ELSE initial_set
             r == traverse(arms[i].exp, [st EXCEPT !.consumed = arm_set], is_ref,
                           Append(path, i))
         IN  IF r.err # "" THEN [r EXCEPT !.consumed = st.consumed]
             ELSE TraverseArms(arms, i + 1,
                               [r EXCEPT !.consumed = st.consumed \cup r.consumed],
                               initial_set, is_ref, path)

\* traverse
traverse(exp, st, is_ref, path) ==
    LET v == [st EXCEPT !.visits = Append(@, [path |-> path, is_ref |-> is_ref])]
    IN  IF exp.k = "Identifier" /\ exp.typ = TTape THEN
            LET r == UseTape(v.consumed, exp.id, is_ref)
            IN  [err |-> IF r.err THEN AlreadyConsumed ELSE "",
                 consumed |-> r.consumed,
                 uses |-> Append(v.uses, [id |-> exp.id, is_ref |-> is_ref,
                                          before |-> v.consumed, after |-> r.consumed,
                                          err |-> r.err]),
                 visits |-> v.visits]
        ELSE IF exp.k = "Match" THEN
            LET s == traverse(exp.exp, v, FALSE, Append(path, 0))
            IN  IF s.err # "" THEN s
                ELSE TraverseArms(exp.arms, 1, s, s.consumed, is_ref, path)
        ELSE IF exp.k = "Function" THEN
            traverse(exp.exp, [v EXCEPT !.consumed = @ \ {exp.param}], FALSE, Append(path, 1))
        ELSE IF exp.k = "Application" THEN
            LET mode == ArgMode(exp.func.typ.arg, exp.func.typ.ret)
                f == traverse(exp.func, v, FALSE, Append(path, 1))
            IN  IF mode = "rejected" THEN [v EXCEPT !.err = ReturnsOther]
                ELSE IF f.err # "" THEN f
                ELSE traverse(exp.arg, f, mode = "borrowed", Append(path, 2))
        ELSE v

\* ownership_check
ownership_check(e) ==
    traverse(e, [err |-> "", consumed |-> {}, uses |-> <<>>, visits |-> <<>>], FALSE, <<>>)

(***************************************************************************)
(* The inputs of ownership_check: typed programs t: body over the builtins *)
(* get (tape -> symbol), next (tape -> tape) and set, a function from tape  *)
(* to a union, an applied tape function, and matches of one arm with a      *)
(* catch-all or of several constant arms.                                   *)
(***************************************************************************)
GetId == Identifier("get", TFunction(TTape, TSymbol))
NextId == Identifier("next", TTapeTape)
SetId == Identifier("set", TFunction(TSymbol, TTapeTape))
PeekFunc == Function("u", Union(Symbol("a"), Symbol("b")), TFunction(TTape, TUnion))
IdFunc == Function("u", Identifier("u", TTape), TTapeTape)

\* The arms of a match: one arm with a catch-all, or two constant arms, the
\* second one level shallower than the first.
OwnArmSeqs(first, second) ==
    {<<Arm("c", PatAny, b)>> : b \in first}
    \cup {<<Arm(None, PatUnion(Symbol("a")), b1), Arm(None, PatUnion(Symbol("b")), b2)>> :
            b1 \in first, b2 \in second}

RECURSIVE OwnTapeExps(_)
RECURSIVE OwnScrutinees(_)

\* Expressions of type symbol or union, to match on or to write.
OwnScrutinees(d) ==
    IF d = 0 THEN {Symbol("a")}
    ELSE {Symbol("a")}
         \cup {Application(GetId, e, TSymbol) : e \in OwnTapeExps(d - 1)}
         \cup {Application(PeekFunc, e, TUnion) : e \in OwnTapeExps(d - 1)}

\* Expressions of type tape.
OwnTapeExps(d) ==
    IF d = 0 THEN {Identifier("t", TTape)}
    ELSE LET prev == OwnTapeExps(d - 1)
         IN  prev
             \cup {Application(NextId, e, TTape) : e \in prev}
             \cup {Application(IdFunc, e, TTape) : e \in prev}
             \cup {Application(Application(SetId, s, TTapeTape), e, TTape) :
                     s \in {x \in OwnScrutinees(d - 1) : x.typ = TSymbol}, e \in prev}
             \cup {Match(s, arms, TTape) :
                     s \in OwnScrutinees(d - 1),
                     arms \in OwnArmSeqs(prev, IF d = 1 THEN prev ELSE OwnTapeExps(d - 2))}

OwnPrograms == {Function("t", b, TTapeTape) : b \in OwnTapeExps(OwnDepth)}

MachineIdle ==
    /\ state_count = MachineNew.state_count
    /\ transitions = MachineNew.transitions
    /\ labels = InitialLabels

mvars == <<state_count, transitions, labels>>

InitOwn ==
    /\ MachineIdle
    /\ mpc = "ownership_check"
    /\ ast \in OwnPrograms
    /\ OwnIdle
    /\ TypesIdle
    /\ CastIdle
    /\ ExpIdle
    /\ LexIdle
    /\ SimplifyIdle
    /\ UnionsIdle

\* ownership_check(ast)
OwnershipCheck ==
    /\ mpc = "ownership_check"
    /\ LET r == ownership_check(ast)
       IN  /\ consumed' = r.consumed
           /\ oresult' = IF r.err = "" THEN "ok" ELSE r.err
           /\ uses' = r.uses
           /\ visits' = r.visits
    /\ mpc' = "done"
    /\ UNCHANGED <<mvars, ast, evars, lvars, uvars, alphabet, tvars, cvars, svars>>

NextOwn == OwnershipCheck

SpecOwn == InitOwn /\ [][NextOwn]_vars

\* The node of e at a path.
RECURSIVE NodeAt(_, _)
NodeAt(e, path) ==
    IF path = <<>> THEN e
    ELSE IF e.k = "Application"
    THEN NodeAt(IF Head(path) = 1 THEN e.func ELSE e.arg, Tail(path))
    ELSE IF e.k = "Match"
    THEN NodeAt(IF Head(path) = 0 THEN e.exp ELSE e.arms[Head(path)].exp, Tail(path))
    ELSE NodeAt(e.exp, Tail(path))

\* C4: a use of a Tape-typed identifier that is in the consumed set ends the check
\* with the error 'already consumed', at owned and borrowed use-sites alike; any
\* other use adds the identifier to the consumed set exactly when the use-site is
\* not borrowed, and leaves the set alone when it is.
C4_UseOfTape ==
    \A i \in DOMAIN uses :
        LET u == uses[i]
        IN  IF u.id \in u.before
            THEN u.err /\ oresult = AlreadyConsumed /\ i = Len(uses)
            ELSE /\ ~u.err
                 /\ u.after = (IF u.is_ref THEN u.before ELSE u.before \cup {u.id})

\* C4 witness: the check returned Ok on a program that borrows tape t twice and
\* then uses it owned.
C4_Witness ==
    /\ oresult = "ok"
    /\ \E i \in DOMAIN uses : \E j \in DOMAIN uses : \E n \in DOMAIN uses :
        /\ i < j /\ j < n
        /\ uses[i].id = "t" /\ uses[i].is_ref
        /\ uses[j].id = "t" /\ uses[j].is_ref
        /\ uses[n].id = "t" /\ ~uses[n].is_ref /\ "t" \in uses[n].after

\* The visits of the node at path p.
VisitsOf(p) == {i \in DOMAIN visits : visits[i].path = p}

IsTapeApplication(e) == e.k = "Application" /\ e.func.typ.arg = TTape

\* C5: for every application traversed whose function takes a Tape: if the function
\* returns Symbol its argument is traversed as borrowed, if it returns Tape as
\* owned, and for any other return type the check ends with an error there,
\* without traversing the function or the argument.
C5_TapeApplication ==
    \A i \in DOMAIN visits :
        LET p == visits[i].path
            e == NodeAt(ast, p)
        IN  IsTapeApplication(e) =>
              IF e.func.typ.ret \in {TSymbol, TTape}
              THEN /\ VisitsOf(Append(p, 1)) # {}
                   /\ \A j \in VisitsOf(Append(p, 2)) :
                        visits[j].is_ref = (e.func.typ.ret = TSymbol)
                   /\ oresult = "ok" => VisitsOf(Append(p, 2)) # {}
              ELSE /\ oresult = ReturnsOther
                   /\ i = Len(visits)

\* C5 witness: the check returned Ok after traversing the argument of a
\* Symbol-returning tape function as borrowed and that of a Tape-returning one as
\* owned.
C5_Witness ==
    /\ oresult = "ok"
    /\ \E i \in DOMAIN visits : \E j \in DOMAIN visits :
        LET e == NodeAt(ast, visits[i].path)
            f == NodeAt(ast, visits[j].path)
        IN  /\ IsTapeApplication(e) /\ e.func.typ.ret = TSymbol
            /\ \E n \in VisitsOf(Append(visits[i].path, 2)) : visits[n].is_ref
            /\ IsTapeApplication(f) /\ f.func.typ.ret = TTape
            /\ \E n \in VisitsOf(Append(visits[j].path, 2)) : ~visits[n].is_ref

(***************************************************************************)
(* data/types.rs.  Type is a record whose t field names the variant.  A     *)
(* TypeGraph is [unresolved_count, casts, resolved] and, as history,        *)
(* assigns and decisions; a cast is [from, to, loc]; resolved is a function *)
(* from the ids that have a resolution.  err is NoErr until resolve fails.  *)
(***************************************************************************)
MaxPushed == 2
MaxCasts == 3
MaxUnresolved == 8

Tape(owned) == [t |-> "Tape", owned |-> owned]
Unresolved(id) == [t |-> "Unresolved", id |-> id]

\* Type::is_resolved
RECURSIVE is_resolved(_)
is_resolved(typ) ==
    IF typ.t = "Function" THEN is_resolved(typ.arg) /\ is_resolved(typ.ret)
    ELSE typ.t # "Unresolved"

\* Type::can_cast
RECURSIVE can_cast(_, _)
can_cast(from, to) ==
    IF from.t = "Function" /\ to.t = "Function"
    THEN can_cast(from.arg, to.arg) /\ can_cast(from.ret, to.ret)
    ELSE IF from = Tape(TRUE) /\ to = Tape(FALSE) THEN TRUE
    ELSE IF from = TSymbol /\ to = TUnion THEN TRUE
    ELSE IF from.t = "Unresolved" \/ to.t = "Unresolved" THEN TRUE
    ELSE from = to

\* TypeGraph::get
RECURSIVE get(_, _)
get(g, typ) ==
    IF typ.t = "Unresolved"
    THEN IF typ.id \in DOMAIN g.resolved THEN get(g, g.resolved[typ.id]) ELSE typ
    ELSE IF typ.t = "Function" THEN TFunction(get(g, typ.arg), get(g, typ.ret))
    ELSE typ

\* HashMap::insert on TypeGraph.resolved, noted in the history.
Insert(g, id, typ, by) ==
    [g EXCEPT !.resolved = [x \in DOMAIN @ \cup {id} |-> IF x = id THEN typ ELSE @[x]],
              !.assigns = Append(@, [id |-> id, typ |-> typ, by |-> by])]

\* remove_function_casts, lines 297-300.
GetCasts(g) ==
    [g EXCEPT !.casts = [i \in DOMAIN g.casts |->
        [from |-> get(g, g.casts[i].from), to |-> get(g, g.casts[i].to),
         loc |-> g.casts[i].loc]]]

\* remove_function_casts, lines 343-346: the casts pushed for (arg1 -> ret1) cast
\* to (arg2 -> ret2).
FunctionCasts(arg1, ret1, arg2, ret2, loc) ==
    << [from |-> arg1, to |-> arg2, loc |-> loc], [from |-> arg2, to |-> arg1, loc |-> loc],
       [from |-> ret1, to |-> ret2, loc |-> loc], [from |-> ret2, to |-> ret1, loc |-> loc] >>

\* remove_function_casts, lines 307-317 and 328-338: Unresolved(id) becomes a
\* function of two new unresolved types; r is [g, kept, new_casts].
ResolveToFunction(r, id, loc) ==
    LET n == r.g.unresolved_count
        func == TFunction(Unresolved(n), Unresolved(n + 1))
    IN  [r EXCEPT !.g = Insert([r.g EXCEPT !.unresolved_count = n + 2], id, func,
                               "remove_function_casts"),
                  !.new_casts = IF id \in DOMAIN r.g.resolved
                                THEN Append(@, [from |-> func, to |-> r.g.resolved[id],
                                                loc |-> loc])
                                ELSE @]

\* remove_function_casts, lines 302-348: the retain over the casts from the k-th on.
RECURSIVE RetainCasts(_, _)
RetainCasts(r, k) ==
    IF k > Len(r.g.casts) THEN r
    ELSE LET c == r.g.casts[k]
             n == r.g.unresolved_count
         IN  IF c.from.t = "Function" /\ c.to.t = "Function" THEN
                 RetainCasts([r EXCEPT !.new_casts = @ \o
                     FunctionCasts(c.from.arg, c.from.ret, c.to.arg, c.to.ret, c.loc)], k + 1)
             ELSE IF c.from.t = "Unresolved" /\ c.to.t = "Function" THEN
                 RetainCasts([ResolveToFunction(r, c.from.id, c.loc) EXCEPT !.new_casts = @ \o
                     FunctionCasts(Unresolved(n), Unresolved(n + 1), c.to.arg, c.to.ret, c.loc)],
                     k + 1)
             ELSE IF c.from.t = "Function" /\ c.to.t = "Unresolved" THEN
                 RetainCasts([ResolveToFunction(r, c.to.id, c.loc) EXCEPT !.new_casts = @ \o
                     FunctionCasts(c.from.arg, c.from.ret, Unresolved(n), Unresolved(n + 1), c.loc)],
                     k + 1)
             ELSE RetainCasts([r EXCEPT !.kept = Append(@, c)], k + 1)

\* TypeGraph::remove_function_casts.  The loop does not end on every graph: it is
\* left, with overflow set, once unresolved_count passes MaxUnresolved.
RECURSIVE remove_function_casts(_)
remove_function_casts(g) ==
    IF g.unresolved_count > MaxUnresolved THEN [g EXCEPT !.overflow = TRUE]
    ELSE LET r == RetainCasts([g |-> GetCasts(g), kept |-> <<>>, new_casts |-> <<>>], 1)
         IN  IF r.new_casts = <<>> THEN [r.g EXCEPT !.casts = r.kept]
             ELSE remove_function_casts([r.g EXCEPT !.casts = r.kept \o r.new_casts])

\* A remove_cycles that sees no edge between the unresolved types.
EdgesNone(g, i) == <<>>

\* remove_cycles, lines 411-425: the edges of vertex i.
Edges(g, i) ==
    LET cs == SelectSeq(g.casts, LAMBDA c :
                /\ c.from = Unresolved(i)
                /\ c.to.t = "Unresolved"
                /\ c.to.id \notin DOMAIN g.resolved)
    IN  [k \in DOMAIN cs |-> cs[k].to.id]

RECURSIVE dfs(_, _)
RECURSIVE DfsEdges(_, _, _)

\* dfs, lines 383-391: the edges of v from the i-th on.
DfsEdges(st, v, i) ==
    IF i > Len(st.edges[v]) THEN st
    ELSE LET w == st.edges[v][i]
         IN  IF st.verts[w].index = 0 THEN
                 LET s2 == dfs(st, w)
                 IN  DfsEdges([s2 EXCEPT !.verts[v].lowlink = Min({@, s2.verts[w].lowlink})],
                              v, i + 1)
             ELSE IF st.verts[w].onstack THEN
                 DfsEdges([st EXCEPT !.verts[v].lowlink = Min({@, st.verts[w].index})], v, i + 1)
             ELSE DfsEdges(st, v, i + 1)

\* dfs, lines 394-405: the component of root v is popped off the stack.
PopScc(st, v) ==
    LET p == CHOOSE k \in DOMAIN st.stack : st.stack[k] = v
        scc == [k \in 1..(Len(st.stack) - p + 1) |-> st.stack[Len(st.stack) - k + 1]]
    IN  [st EXCEPT !.stack = SubSeq(@, 1, p - 1),
                   !.verts = [x \in DOMAIN @ |->
                                IF \E k \in DOMAIN scc : scc[k] = x
                                THEN [@[x] EXCEPT !.onstack = FALSE] ELSE @[x]],
                   !.sccs = Append(@, scc)]

\* dfs
dfs(st, v) ==
    LET s2 == DfsEdges([st EXCEPT !.verts[v] = [index |-> st.index, lowlink |-> st.index,
                                                 onstack |-> TRUE],
                                  !.stack = Append(@, v),
                                  !.index = @ + 1], v, 1)
    IN  IF s2.verts[v].lowlink = s2.verts[v].index THEN PopScc(s2, v) ELSE s2

\* remove_cycles, lines 439-443: the vertices from v on.
RECURSIVE DfsFrom(_, _, _)
DfsFrom(g, st, v) ==
    IF v >= g.unresolved_count THEN st
    ELSE IF st.verts[v].index = 0 /\ v \notin DOMAIN g.resolved
    THEN DfsFrom(g, dfs(st, v), v + 1)
    ELSE DfsFrom(g, st, v + 1)

\* remove_cycles, lines 446-481: the components from the k-th on are merged.
RECURSIVE MergeSccs(_, _, _)
MergeSccs(g, sccs, k) ==
    IF k > Len(sccs) THEN g
    ELSE LET scc == sccs[k]
             In(typ) == typ.t = "Unresolved" /\ \E j \in DOMAIN scc : scc[j] = typ.id
             Rename(typ) == IF In(typ) THEN Unresolved(scc[1]) ELSE typ
             outer == SelectSeq(g.casts, LAMBDA c : ~(In(c.from) /\ In(c.to)))
             renamed == [i \in DOMAIN outer |->
                           [from |-> Rename(outer[i].from), to |-> Rename(outer[i].to),
                            loc |-> outer[i].loc]]
             RECURSIVE InsertRest(_, _)
             InsertRest(h, j) ==
                IF j > Len(scc) THEN h
                ELSE InsertRest(Insert(h, scc[j], Unresolved(scc[1]), "remove_cycles"), j + 1)
         IN  MergeSccs(InsertRest([g EXCEPT !.casts = renamed], 2), sccs, k + 1)

\* TypeGraph::remove_cycles
remove_cycles(g) ==
    LET st == [verts |-> [i \in 0..(g.unresolved_count - 1) |->
                            [index |-> 0, lowlink |-> 0, onstack |-> FALSE]],
               edges |-> [i \in 0..(g.unresolved_count - 1) |-> Edges(g, i)],
               stack |-> <<>>, sccs |-> <<>>, index |-> 1]
    IN  MergeSccs(g, DfsFrom(g, st, 0).sccs, 1)

\* Option::None and Option::Some of a (type, location) pair.
NoBound == [k |-> "None"]
SomeBound(typ, loc) == [k |-> "Some", typ |-> typ, loc |-> loc]

\* resolve, lines 103-132: the types cast to Unresolved(i) (lower = TRUE) or that
\* it is cast to, each with the location of its cast, before the filter.
Bounds(g, i, lower) ==
    LET cs == SelectSeq(g.casts, LAMBDA c :
                IF lower THEN c.to = Unresolved(i) ELSE c.from = Unresolved(i))
    IN  [k \in DOMAIN cs |->
            [typ |-> get(g, IF lower THEN cs[k].from ELSE cs[k].to), loc |-> cs[k].loc]]

\* resolve, lines 135-145: the first occurrence of every type is kept.
RECURSIVE Dedup(_)
Dedup(bs) ==
    IF bs = <<>> THEN <<>>
    ELSE LET init == Dedup(SubSeq(bs, 1, Len(bs) - 1))
             last == bs[Len(bs)]
         IN  IF \E j \in DOMAIN init : init[j].typ = last.typ THEN init ELSE Append(init, last)

\* A resolve that finds no two bounds incompatible.
IncompatibleNever(bs) == {}

\* resolve, lines 158-160 and 196-198: the pairs i < j of bounds neither of which
\* casts to the other.
Incompatible(bs) ==
    {q \in (DOMAIN bs) \X (DOMAIN bs) :
        /\ q[1] < q[2]
        /\ ~can_cast(bs[q[1]].typ, bs[q[2]].typ)
        /\ ~can_cast(bs[q[2]].typ, bs[q[1]].typ)}

\* A resolve whose lower bounds combine to the owned tape.
LubOwned(a, b) ==
    IF a.t = "Tape" /\ b.t = "Tape" THEN Tape(TRUE)
    ELSE IF {a, b} = {TSymbol, TUnion} THEN TUnion
    ELSE NoType

\* resolve, lines 170-178: two lower bounds.
Lub(a, b) ==
    IF a.t = "Tape" /\ b.t = "Tape" THEN Tape(FALSE)
    ELSE IF {a, b} = {TSymbol, TUnion} THEN TUnion
    ELSE NoType

\* resolve, lines 208-216: two upper bounds.
Glb(a, b) ==
    IF a.t = "Tape" /\ b.t = "Tape" THEN Tape(TRUE)
    ELSE IF {a, b} = {TSymbol, TUnion} THEN TSymbol
    ELSE NoType

\* resolve, lines 148-183 (lower = TRUE) and 186-221: the bounds as one, or the
\* first incompatible pair in the order of the two loops, or the unreachable!().
CombineBounds(bs, unresolved, lower) ==
    IF Len(bs) = 0 THEN NoBound
    ELSE IF Len(bs) = 1 THEN
        IF unresolved /\ bs[1].typ \in (IF lower THEN {TSymbol, Tape(TRUE)}
                                                 ELSE {TUnion, Tape(FALSE)})
        THEN NoBound
        ELSE SomeBound(bs[1].typ, bs[1].loc)
    ELSE IF Incompatible(bs) # {} THEN
        LET i == Min({q[1] : q \in Incompatible(bs)})
            j == Min({q[2] : q \in {x \in Incompatible(bs) : x[1] = i}})
        IN  [k |-> "Err", a |-> bs[i], b |-> bs[j]]
    ELSE IF Len(bs) = 2 THEN
        LET t == IF lower THEN Lub(bs[1].typ, bs[2].typ) ELSE Glb(bs[1].typ, bs[2].typ)
        IN  IF t = NoType THEN NoBound ELSE SomeBound(t, bs[1].loc)
    ELSE [k |-> "Unreachable"]

\* resolve, lines 224-237.
Decide(from, to) ==
    IF from.k = "Some" /\ to.k = "Some" THEN
        IF can_cast(from.typ, to.typ) THEN SomeBound(from.typ, from.loc)
        ELSE [k |-> "Err", a |-> from, b |-> to]
    ELSE IF from.k = "Some" THEN
        IF from.typ \in {Tape(TRUE), TSymbol} THEN NoBound ELSE from
    ELSE to

\* resolve, lines 239-242, and the three returns of Err before them: d is the
\* decision on Unresolved(i).
Assign(g, i, d) ==
    LET h == [g EXCEPT !.decisions = Append(@, d)]
    IN  IF d.lower.k = "Unreachable" \/ d.upper.k = "Unreachable"
        THEN [h EXCEPT !.err = [kind |-> "unreachable"]]
        ELSE IF d.lower.k = "Err" THEN
            [h EXCEPT !.err = [kind |-> "incompatible types cast to it",
                               a |-> d.lower.a.typ, b |-> d.lower.b.typ,
                               aloc |-> d.lower.a.loc, bloc |-> d.lower.b.loc]]
        ELSE IF d.upper.k = "Err" THEN
            [h EXCEPT !.err = [kind |-> "casts to incompatible types",
                               a |-> d.upper.a.typ, b |-> d.upper.b.typ,
                               aloc |-> d.upper.a.loc, bloc |-> d.upper.b.loc]]
        ELSE IF d.t.k = "Err" THEN
            [h EXCEPT !.err = [kind |-> "Cannot cast", a |-> d.t.a.typ, b |-> d.t.b.typ,
                               aloc |-> d.t.b.loc, bloc |-> d.t.b.loc]]
        ELSE IF d.t.k = "Some" THEN
            [Insert(h, i, d.t.typ, "resolve") EXCEPT !.changed = TRUE]
        ELSE h

\* resolve, lines 99-237: what the loop finds for Unresolved(i).
Decision(i, from, to, unresolved_from, unresolved_to) ==
    LET lower == CombineBounds(from, unresolved_from, TRUE)
        upper == IF lower.k \in {"Err", "Unreachable"} THEN NoBound
                 ELSE CombineBounds(to, unresolved_to, FALSE)
    IN  [var |-> i, from |-> from, to |-> to, lower |-> lower, upper |-> upper,
         t |-> IF upper.k \in {"Err", "Unreachable"} THEN NoBound ELSE Decide(lower, upper)]

\* resolve, lines 93-243: the variables from the i-th on.
RECURSIVE ResolveFrom(_, _)
ResolveFrom(g, i) ==
    IF i >= g.unresolved_count \/ g.err # NoErr THEN g
    ELSE IF i \in DOMAIN g.resolved THEN ResolveFrom(g, i + 1)
    ELSE LET from == SelectSeq(Bounds(g, i, TRUE), LAMBDA b : is_resolved(b.typ))
             to == SelectSeq(Bounds(g, i, FALSE), LAMBDA b : is_resolved(b.typ))
         IN  ResolveFrom(Assign(g, i,
                Decision(i, Dedup(from), Dedup(to),
                         Len(from) < Len(Bounds(g, i, TRUE)),
                         Len(to) < Len(Bounds(g, i, FALSE)))), i + 1)

\* resolve, lines 90-248.
RECURSIVE ResolveLoop(_)
ResolveLoop(g) ==
    LET p == ResolveFrom([g EXCEPT !.changed = FALSE], 0)
    IN  IF p.err # NoErr \/ ~p.changed THEN p ELSE ResolveLoop(p)

\* A resolve that does not verify the casts at the end.
remove_resolved_casts_unchecked(g) ==
    [g EXCEPT !.casts = SelectSeq(@, LAMBDA c : ~is_resolved(c.from) \/ ~is_resolved(c.to)),
              !.final = TRUE]

\* TypeGraph::remove_resolved_casts
remove_resolved_casts(g) ==
    LET bad == {k \in DOMAIN g.casts : ~can_cast(get(g, g.casts[k].from), get(g, g.casts[k].to))}
    IN  IF bad # {}
        THEN LET c == g.casts[Min(bad)]
             IN  [g EXCEPT !.err = [kind |-> "Cannot cast", a |-> get(g, c.from),
                                    b |-> get(g, c.to), aloc |-> c.loc, bloc |-> c.loc],
                           !.final = TRUE]
        ELSE [g EXCEPT !.casts = SelectSeq(@, LAMBDA c :
                                    ~is_resolved(c.from) \/ ~is_resolved(c.to)),
                       !.final = TRUE]

\* resolve, lines 90-252, after remove_function_casts.
ResolveRest(g) ==
    IF g.overflow THEN g
    ELSE LET l == ResolveLoop(remove_cycles(g))
         IN  IF l.err # NoErr THEN l ELSE remove_resolved_casts(l)

\* TypeGraph::resolve
resolve(g) == ResolveRest(remove_function_casts(g))

(***************************************************************************)
(* annotater/type_checker.rs: type_check.  check_exp builds the graph with  *)
(* push and cast; type_check then casts the type of the program to          *)
(* tape -> tape and resolves the graph.                                     *)
(***************************************************************************)
BaseTypes == {TSymbol, TUnion, Tape(TRUE), Tape(FALSE)}

\* A type_check that wants a program from the borrowed tape.
ProgramTypeBorrowed == TFunction(Tape(FALSE), Tape(TRUE))

\* type_check, lines 15-18.
ProgramType == TFunction(Tape(TRUE), Tape(TRUE))

\* The unresolved types pushed so far.
Pushed == {Unresolved(i) : i \in 0..(unresolved_count - 1)}

\* The casts check_exp registers: a base type or the type of a tape function to
\* or from the last unresolved type, and the unresolved types to one another.
CastPairs ==
    ({Unresolved(MaxPushed - 1)} \X (BaseTypes \cup {ProgramType}))
    \cup ((BaseTypes \cup {ProgramType}) \X {Unresolved(MaxPushed - 1)})
    \cup {q \in Pushed \X Pushed : q[1] # q[2]}

\* The types check_exp gives a program: that of next, a function of unresolved
\* argument and return, or that of get.
RootTypes ==
    {ProgramType, TFunction(Unresolved(0), Unresolved(1)), TFunction(Tape(FALSE), TSymbol)}

InitTypes ==
    /\ MachineIdle
    /\ mpc = "check_exp"
    /\ ast = NoExp
    /\ OwnIdle
    /\ TypesIdle
    /\ CastIdle
    /\ ExpIdle
    /\ LexIdle
    /\ SimplifyIdle
    /\ UnionsIdle

\* TypeGraph::push
TypeGraphPush ==
    /\ mpc = "check_exp"
    /\ unresolved_count < MaxPushed
    /\ unresolved_count' = unresolved_count + 1
    /\ UNCHANGED <<mvars, mpc, ast, evars, lvars, uvars, alphabet, ovars, cvars, svars,
                   casts, resolved, root, tresult, recorded, assigns, decisions>>

\* TypeGraph::cast; the location of a cast is its number.  The pushes are taken
\* first: a cast names pushed types only, so the graphs built are the same.
TypeGraphCast ==
    /\ mpc = "check_exp"
    /\ unresolved_count = MaxPushed
    /\ Len(casts) < MaxCasts
    /\ \E q \in CastPairs :
        /\ casts' = Append(casts, [from |-> q[1], to |-> q[2], loc |-> Len(casts) + 1])
        /\ recorded' = casts'
    /\ UNCHANGED <<mvars, mpc, ast, evars, lvars, uvars, alphabet, ovars, cvars, svars,
                   unresolved_count, resolved, root, tresult, assigns, decisions>>

\* type_check, lines 13-21, on a program to which check_exp gave type r.
TypeCheck ==
    /\ mpc = "check_exp"
    /\ unresolved_count = MaxPushed
    /\ \E r \in RootTypes :
        LET c == [from |-> r, to |-> ProgramType, loc |-> Len(casts) + 1]
        IN  \E g \in {resolve([unresolved_count |-> unresolved_count,
                               casts |-> Append(casts, c), resolved |-> resolved,
                               assigns |-> <<>>, decisions |-> <<>>, err |-> NoErr,
                               changed |-> FALSE, overflow |-> FALSE, final |-> FALSE])} :
            /\ root' = r
            /\ recorded' = Append(casts, c)
            /\ unresolved_count' = g.unresolved_count
            /\ casts' = g.casts
            /\ resolved' = g.resolved
            /\ assigns' = g.assigns
            /\ decisions' = g.decisions
            /\ tresult' = [kind |-> IF g.overflow THEN "diverges"
                                    ELSE IF g.err = NoErr THEN "Ok"
                                    ELSE IF g.err.kind = "unreachable" THEN "panic"
                                    ELSE "Err",
                           err |-> g.err, final |-> g.final]
    /\ mpc' = "done"
    /\ UNCHANGED <<mvars, ast, evars, lvars, uvars, alphabet, ovars, cvars, svars>>

NextTypes == TypeGraphPush \/ TypeGraphCast \/ TypeCheck

SpecTypes == InitTypes /\ [][NextTypes]_vars

\* TypeGraph::get on the graph as it is.
Get(typ) == get([resolved |-> resolved], typ)

\* C6: type_check returns Ok only with the type of the program resolved to the
\* function from the owned tape to the owned tape, and returns Err whenever the
\* resolved type of the program cannot be cast to it.
C6_ProgramIsTapeToTape ==
    mpc = "done" /\ root # NoType =>
        /\ tresult.kind = "Ok" => Get(root) = TFunction(Tape(TRUE), Tape(TRUE))
        /\ ~can_cast(Get(root), TFunction(Tape(TRUE), Tape(TRUE))) => tresult.kind = "Err"

\* C6 witness: type_check returned Ok on a program that check_exp typed as a
\* function of unresolved argument and return, with casts on both.
C6_Witness ==
    /\ mpc = "done" /\ tresult.kind = "Ok"
    /\ root = TFunction(Unresolved(0), Unresolved(1))
    /\ Len(recorded) = MaxCasts + 1
    /\ Get(root) = TFunction(Tape(TRUE), Tape(TRUE))

\* C8: each variable the loop of resolve examines has deduplicated, resolved
\* bounds; two lower bounds are combined to their least upper bound (the borrowed
\* tape for two tapes, union for symbol and union), two upper bounds to their
\* greatest lower bound (the owned tape, symbol); and when both combined bounds
\* exist and the lower casts to the upper, the variable is fixed to the lower.
C8_BoundsCombined ==
    \A n \in DOMAIN decisions :
        LET d == decisions[n]
            Clean(bs) == \A i \in DOMAIN bs :
                            /\ is_resolved(bs[i].typ)
                            /\ \A j \in DOMAIN bs : bs[i].typ = bs[j].typ => i = j
            Pair(bs) == {bs[1].typ, bs[2].typ}
        IN  /\ Clean(d.from) /\ Clean(d.to)
            /\ Len(d.from) = 2 /\ d.lower.k # "Err" =>
                /\ d.lower.k = "Some"
                /\ Pair(d.from) = {Tape(TRUE), Tape(FALSE)} => d.lower.typ = Tape(FALSE)
                /\ Pair(d.from) = {TSymbol, TUnion} => d.lower.typ = TUnion
                /\ \A i \in DOMAIN d.from : can_cast(d.from[i].typ, d.lower.typ)
            /\ Len(d.to) = 2 /\ d.lower.k # "Err" /\ d.upper.k # "Err" =>
                /\ d.upper.k = "Some"
                /\ Pair(d.to) = {Tape(TRUE), Tape(FALSE)} => d.upper.typ = Tape(TRUE)
                /\ Pair(d.to) = {TSymbol, TUnion} => d.upper.typ = TSymbol
                /\ \A i \in DOMAIN d.to : can_cast(d.upper.typ, d.to[i].typ)
            /\ d.lower.k = "Some" /\ d.upper.k = "Some" /\ can_cast(d.lower.typ, d.upper.typ) =>
                /\ d.var \in DOMAIN resolved
                /\ resolved[d.var] = d.lower.typ

\* C8 witness: resolve returned Ok after fixing a variable that has two lower
\* bounds and an upper bound to the least upper bound of the two.
C8_Witness ==
    /\ mpc = "done" /\ tresult.kind = "Ok"
    /\ \E n \in DOMAIN decisions :
        /\ Len(decisions[n].from) = 2
        /\ decisions[n].lower.k = "Some" /\ decisions[n].upper.k = "Some"
        /\ decisions[n].var \in DOMAIN resolved
        /\ resolved[decisions[n].var] = decisions[n].lower.typ

\* C9, as stated: after Ok every recorded cast holds between the resolved types,
\* a recorded cast that does not hold once the loop is over gives the error
\* 'Cannot cast', and no variable is assigned a resolution twice.
C9_AssignedOnce ==
    /\ mpc = "done" /\ tresult.kind = "Ok" =>
        \A i \in DOMAIN recorded : can_cast(Get(recorded[i].from), Get(recorded[i].to))
    /\ mpc = "done" /\ tresult.kind # "Ok" /\ tresult.final =>
        tresult.kind = "Err" /\ tresult.err.kind = "Cannot cast"
    /\ \A i \in DOMAIN assigns : \A j \in DOMAIN assigns :
        assigns[i].id = assigns[j].id => i = j

\* C9: after Ok every recorded cast holds between the resolved types; when the
\* loop is over and a recorded cast does not hold, resolve returns the error
\* 'Cannot cast'; and two assignments of one variable are both made by
\* remove_function_casts: the loop of resolve and remove_cycles assign a variable
\* at most once, and only one that has no resolution.
C9_CastsSatisfied ==
    /\ mpc = "done" /\ tresult.kind = "Ok" =>
        \A i \in DOMAIN recorded : can_cast(Get(recorded[i].from), Get(recorded[i].to))
    /\ mpc = "done" /\ tresult.final
            /\ (\E i \in DOMAIN recorded :
                    ~can_cast(Get(recorded[i].from), Get(recorded[i].to))) =>
        tresult.kind = "Err" /\ tresult.err.kind = "Cannot cast"
    /\ \A i \in DOMAIN assigns : \A j \in DOMAIN assigns :
        assigns[i].id = assigns[j].id /\ i # j =>
            assigns[i].by = "remove_function_casts" /\ assigns[j].by = "remove_function_casts"

\* C9 witness: resolve returned Ok on a graph with a cast between two unresolved
\* types, having assigned one variable in its loop and one twice in
\* remove_function_casts.
C9_Witness ==
    /\ mpc = "done" /\ tresult.kind = "Ok"
    /\ \E i \in DOMAIN recorded :
        recorded[i].from.t = "Unresolved" /\ recorded[i].to.t = "Unresolved"
    /\ \E i \in DOMAIN assigns : assigns[i].by = "resolve"
    /\ \E i \in DOMAIN assigns : \E j \in DOMAIN assigns :
        i # j /\ assigns[i].id = assigns[j].id

\* C10: when the deduplicated resolved lower bounds, or upper bounds, of the
\* variable the loop examines hold two types neither of which casts to the other,
\* resolve returns at that variable the error that names two such types of the
\* list and the locations of their casts, and the variable has no resolution.
C10_IncompatibleBounds ==
    \A n \in DOMAIN decisions :
        LET d == decisions[n]
            Clash(bs, i, j) ==
                i < j /\ ~can_cast(bs[i].typ, bs[j].typ) /\ ~can_cast(bs[j].typ, bs[i].typ)
            Bad(bs) == \E i \in DOMAIN bs : \E j \in DOMAIN bs : Clash(bs, i, j)
            Named(bs, e) == \E i \in DOMAIN bs : \E j \in DOMAIN bs :
                /\ Clash(bs, i, j)
                /\ e.a = bs[i].typ /\ e.b = bs[j].typ
                /\ e.aloc = bs[i].loc /\ e.bloc = bs[j].loc
        IN  Bad(d.from) \/ Bad(d.to) =>
                /\ mpc = "done" /\ tresult.kind = "Err"
                /\ n = Len(decisions)
                /\ d.var \notin DOMAIN resolved
                /\ \/ tresult.err.kind = "incompatible types cast to it"
                         /\ Named(d.from, tresult.err)
                   \/ tresult.err.kind = "casts to incompatible types"
                         /\ Named(d.to, tresult.err)

\* C10 witness: resolve returned the error for two incompatible upper bounds of a
\* variable, cast at two locations, after resolving another variable.
C10_Witness ==
    /\ mpc = "done" /\ tresult.kind = "Err"
    /\ tresult.err.kind = "casts to incompatible types"
    /\ tresult.err.aloc # tresult.err.bloc
    /\ \E i \in DOMAIN assigns : assigns[i].by = "resolve"

(***************************************************************************)
(* Type::can_cast on resolved types: the base types and the functions       *)
(* between them.                                                            *)
(***************************************************************************)
ResolvedTypes == BaseTypes \cup {TFunction(a, r) : a \in BaseTypes, r \in BaseTypes}

InitCast ==
    /\ MachineIdle
    /\ mpc = "can_cast"
    /\ ast = NoExp
    /\ OwnIdle
    /\ TypesIdle
    /\ cast_from \in ResolvedTypes
    /\ cast_to \in ResolvedTypes
    /\ cast_ok = "none"
    /\ ExpIdle
    /\ LexIdle
    /\ SimplifyIdle
    /\ UnionsIdle

\* cast_from.can_cast(&cast_to)
CanCast ==
    /\ mpc = "can_cast"
    /\ cast_ok' = IF can_cast(cast_from, cast_to) THEN "true" ELSE "false"
    /\ mpc' = "done"
    /\ UNCHANGED <<mvars, ast, evars, lvars, uvars, alphabet, ovars, tvars, cast_from, cast_to, svars>>

NextCast == CanCast

SpecCast == InitCast /\ [][NextCast]_vars

\* C7: a cast from the function arg1 -> ret1 to the function arg2 -> ret2 is
\* accepted exactly when arg2 casts to arg1 and ret1 casts to ret2.
C7_FunctionCastVariance ==
    cast_ok # "none" /\ cast_from.t = "Function" /\ cast_to.t = "Function" =>
        (cast_ok = "true" <=> /\ can_cast(cast_to.arg, cast_from.arg)
                              /\ can_cast(cast_from.ret, cast_to.ret))

(***************************************************************************)
(* main.rs, simplifier: the post-type simplifier.  A program reaches it     *)
(* after remove_any, so every arm's pattern is a Pat::Union, and with the   *)
(* type of every node in its annotation.  A HashSet is iterated in any      *)
(* order: `order` is the order of the letters in the run.  Panic stands for *)
(* the compiler stopped by unreachable!() or a failed assert!.              *)
(***************************************************************************)
Panic == [k |-> "panic"]

RECURSIVE Panics(_)
Panics(e) ==
    CASE e.k = "panic" -> TRUE
      [] e.k = "Union" -> Panics(e.lhs) \/ Panics(e.rhs)
      [] e.k = "Match" ->
            \/ Panics(e.exp)
            \/ \E i \in DOMAIN e.arms :
                  \/ e.arms[i].pat.p = "Union" /\ Panics(e.arms[i].pat.u)
                  \/ Panics(e.arms[i].exp)
      [] e.k = "Function" -> Panics(e.exp)
      [] e.k = "Application" -> Panics(e.func) \/ Panics(e.arg)
      [] OTHER -> FALSE

\* A panic anywhere stops the whole call.
Strict(e) == IF Panics(e) THEN Panic ELSE e

RECURSIVE Flatten(_)
Flatten(ss) == IF ss = <<>> THEN <<>> ELSE Head(ss) \o Flatten(Tail(ss))

\* union_from_set that leaves the last symbol of the set out when there are
\* several.
union_from_set_short(symbols, annot, order) ==
    LET syms == IterOrder(symbols, order)
        Sym(n) == [k |-> "Symbol", sym |-> syms[n], typ |-> annot]
        RECURSIVE Build(_)
        Build(n) == IF n = 1 THEN Sym(1)
                    ELSE [k |-> "Union", lhs |-> Build(n - 1), rhs |-> Sym(n), typ |-> annot]
    IN  Build(IF Len(syms) > 1 THEN Len(syms) - 1 ELSE 1)

\* Exp::union_from_set: the left-nested union of the symbols, each node with
\* the annotation given.
union_from_set(symbols, annot, order) ==
    LET syms == IterOrder(symbols, order)
        Sym(n) == [k |-> "Symbol", sym |-> syms[n], typ |-> annot]
        RECURSIVE Build(_)
        Build(n) == IF n = 1 THEN Sym(1)
                    ELSE [k |-> "Union", lhs |-> Build(n - 1), rhs |-> Sym(n), typ |-> annot]
    IN  Build(Len(syms))

\* Exp::eq_ignore_annot
RECURSIVE eq_ignore_annot(_, _)
eq_ignore_annot(a, b) ==
    CASE a.k = "Identifier" /\ b.k = "Identifier" -> a.id = b.id
      [] a.k = "Symbol" /\ b.k = "Symbol" -> a.sym = b.sym
      [] a.k = "Abort" /\ b.k = "Abort" -> TRUE
      [] a.k = "Union" /\ b.k = "Union" ->
            \/ eq_ignore_annot(a.lhs, b.lhs) /\ eq_ignore_annot(a.rhs, b.rhs)
            \/ LET l1 == union_to_set(a.lhs, {})
                   r1 == union_to_set(a.rhs, l1.set)
                   l2 == union_to_set(b.lhs, {})
                   r2 == union_to_set(b.rhs, l2.set)
               IN  l1.ok /\ r1.ok /\ l2.ok /\ r2.ok /\ r1.set = r2.set
      [] a.k = "Match" /\ b.k = "Match" ->
            /\ eq_ignore_annot(a.exp, b.exp)
            /\ \A i \in DOMAIN a.arms : \E j \in DOMAIN b.arms :
                /\ \/ /\ a.arms[i].pat.p = "Union" /\ b.arms[j].pat.p = "Union"
                      /\ eq_ignore_annot(a.arms[i].pat.u, b.arms[j].pat.u)
                   \/ a.arms[i].pat.p = "Any" /\ b.arms[j].pat.p = "Any"
                /\ a.arms[i].catch_id = b.arms[j].catch_id
                /\ eq_ignore_annot(a.arms[i].exp, b.arms[j].exp)
      [] a.k = "Let" /\ b.k = "Let" ->
            /\ eq_ignore_annot(a.exp, b.exp)
            /\ \A i \in DOMAIN a.binds \cap DOMAIN b.binds :
                /\ a.binds[i].id = b.binds[i].id
                /\ eq_ignore_annot(a.binds[i].exp, b.binds[i].exp)
      [] a.k = "Function" /\ b.k = "Function" ->
            a.param = b.param /\ eq_ignore_annot(a.exp, b.exp)
      [] a.k = "Application" /\ b.k = "Application" ->
            eq_ignore_annot(a.func, b.func) /\ eq_ignore_annot(a.arg, b.arg)
      [] OTHER -> FALSE

\* replace_id leaving every identifier in place.
replace_id_none(node, id, exp) == node

\* id_replacer.rs
RECURSIVE replace_id(_, _, _)
replace_id(node, id, exp) ==
    CASE node.k = "Identifier" -> IF node.id = id THEN exp ELSE node
      [] node.k = "Union" ->
            [node EXCEPT !.lhs = replace_id(node.lhs, id, exp),
                        !.rhs = replace_id(node.rhs, id, exp)]
      [] node.k = "Match" ->
            Match(replace_id(node.exp, id, exp),
                  [i \in DOMAIN node.arms |->
                      Arm(node.arms[i].catch_id,
                          PatUnion(replace_id(node.arms[i].pat.u, id, exp)),
                          IF node.arms[i].catch_id = id THEN node.arms[i].exp
                          ELSE replace_id(node.arms[i].exp, id, exp))],
                  node.typ)
      [] node.k = "Function" ->
            IF node.param # id THEN [node EXCEPT !.exp = replace_id(node.exp, id, exp)] ELSE node
      [] node.k = "Application" ->
            [node EXCEPT !.func = replace_id(node.func, id, exp),
                        !.arg = replace_id(node.arg, id, exp)]
      [] OTHER -> node

RECURSIVE transform(_, _, _)

\* capture_remover.rs, remove_captures(ast, rec): rec is the identity when
\* pass is "none", and the transform by that pass otherwise.
remove_captures_rec(node, order, pass) ==
    IF node.k # "Match" THEN node
    ELSE LET rec(x) == IF pass = "none" THEN x ELSE transform(x, pass, order)
             Split(arm) ==
                 IF arm.catch_id = None THEN <<arm>>
                 ELSE LET u == union_to_set(arm.pat.u, {})
                          syms == IterOrder(u.set, order)
                      IN  IF ~u.ok THEN <<Arm(None, arm.pat, Panic)>>
                          ELSE [i \in DOMAIN syms |->
                                  Arm(None, PatUnion(Symbol(syms[i])),
                                      rec(replace_id(arm.exp, arm.catch_id,
                                                     Symbol(syms[i]))))]
         IN  [node EXCEPT !.arms = Flatten([i \in DOMAIN node.arms |-> Split(node.arms[i])])]

\* remove_captures(e, rec) of final_transform: rec is the transform by
\* final_transform.
remove_captures(node, order) ==
    remove_captures_rec(node, order, "final")

\* applier.rs, apply(e, rec): an application of a function expression whose type
\* is not tape -> tape is replaced by the body with the argument substituted
\* for the parameter, transformed again by rec.
apply(e, pass, order) ==
    IF e.k = "Application" /\ e.func.k = "Function" /\ e.func.typ # TTapeTape
    THEN transform(replace_id(e.func.exp, e.func.param, e.arg), pass, order)
    ELSE e

\* trivial_remover.rs
RECURSIVE uses_id(_, _)
uses_id(node, id) ==
    CASE node.k = "Identifier" -> node.id = id
      [] node.k = "Union" -> uses_id(node.lhs, id) \/ uses_id(node.rhs, id)
      [] node.k = "Match" ->
            \/ uses_id(node.exp, id)
            \/ \E i \in DOMAIN node.arms :
                \/ node.arms[i].catch_id # id /\ uses_id(node.arms[i].exp, id)
                \/ uses_id(node.arms[i].pat.u, id)
      [] node.k = "Function" -> node.param # id /\ uses_id(node.exp, id)
      [] node.k = "Application" -> uses_id(node.func, id) \/ uses_id(node.arg, id)
      [] OTHER -> FALSE

remove_trivial(exp) ==
    IF exp.k # "Application" \/ exp.func.k # "Function" THEN exp
    ELSE LET func == exp.func
         IN  IF func.exp.k = "Identifier" /\ func.exp.id = func.param
             THEN [exp.arg EXCEPT !.typ = exp.typ]
             ELSE IF /\ func.exp.k = "Application"
                     /\ func.exp.arg.k = "Identifier"
                     /\ func.exp.arg.id = func.param
             THEN Application(func.exp.func, exp.arg, exp.typ)
             ELSE IF ~uses_id(func.exp, func.param)
             THEN [func.exp EXCEPT !.typ = exp.typ]
             ELSE exp

\* match_mover.rs
RECURSIVE move_matches(_)
move_matches(node) ==
    CASE node.k = "Union" ->
            [node EXCEPT !.lhs = move_matches(node.lhs), !.rhs = move_matches(node.rhs)]
      [] node.k = "Match" ->
            Match(move_matches(node.exp),
                  [i \in DOMAIN node.arms |->
                      Arm(node.arms[i].catch_id,
                          PatUnion(move_matches(node.arms[i].pat.u)),
                          move_matches(node.arms[i].exp))],
                  node.typ)
      [] node.k = "Function" -> [node EXCEPT !.exp = move_matches(node.exp)]
      [] node.k = "Application" ->
            LET func == move_matches(node.func)
                arg == move_matches(node.arg)
            IN  IF func.k = "Match" THEN
                    Match(func.exp,
                          [i \in DOMAIN func.arms |->
                              Arm(func.arms[i].catch_id,
                                  PatUnion(move_matches(func.arms[i].pat.u)),
                                  Application(move_matches(func.arms[i].exp), arg, node.typ))],
                          node.typ)
                ELSE IF arg.k = "Match" THEN
                    Match(arg.exp,
                          [i \in DOMAIN arg.arms |->
                              Arm(arg.arms[i].catch_id,
                                  PatUnion(move_matches(arg.arms[i].pat.u)),
                                  Application(func, move_matches(arg.arms[i].exp), node.typ))],
                          node.typ)
                ELSE Application(func, arg, node.typ)
      [] OTHER -> node

\* matcher.rs: find stops at the first arm of the symbol, and panics on an arm
\* before it that has a catch_id or whose pattern is not a single symbol.
\* match_const taking the first arm whatever its pattern.
match_const_first(node) ==
    IF node.k = "Match" /\ node.exp.k = "Symbol" /\ node.arms # <<>>
    THEN node.arms[1].exp
    ELSE node

match_const(node) ==
    IF node.k = "Match" /\ node.exp.k = "Symbol" THEN
        LET RECURSIVE Find(_)
            Find(i) ==
                IF i > Len(node.arms) THEN Match(node.exp, <<>>, node.typ)
                ELSE IF node.arms[i].catch_id # None \/ node.arms[i].pat.u.k # "Symbol"
                THEN Panic
                ELSE IF node.arms[i].pat.u.sym = node.exp.sym THEN node.arms[i].exp
                ELSE Find(i + 1)
        IN  Find(1)
    ELSE node

\* pat_dedup.rs
\* dedup_patterns leaving every pattern as it is.
dedup_patterns_keep(node, order) == node

RECURSIVE dedup_patterns(_, _)
dedup_patterns(node, order) ==
    CASE node.k = "Union" ->
            [node EXCEPT !.lhs = dedup_patterns(node.lhs, order),
                        !.rhs = dedup_patterns(node.rhs, order)]
      [] node.k = "Match" ->
            LET RECURSIVE Arms(_, _, _)
                Arms(i, used, set) ==
                    IF i > Len(node.arms) THEN <<>>
                    ELSE LET pat == dedup_patterns(node.arms[i].pat.u, order)
                             u == union_to_set(pat, set)
                             kept == u.set \ used
                             exp == dedup_patterns(node.arms[i].exp, order)
                         IN  IF ~u.ok
                             THEN <<Arm(None, PatUnion(pat), exp)>> \o Arms(i + 1, used, u.set)
                             ELSE IF kept = {} THEN Arms(i + 1, used, {})
                             ELSE <<Arm(None,
                                        PatUnion(IF kept # u.set
                                                 THEN union_from_set(kept, pat.typ, order)
                                                 ELSE pat),
                                        exp)>> \o Arms(i + 1, used \cup kept, {})
            IN  Match(dedup_patterns(node.exp, order), Arms(1, {}, {}), node.typ)
      [] node.k = "Function" -> [node EXCEPT !.exp = dedup_patterns(node.exp, order)]
      [] node.k = "Application" ->
            [node EXCEPT !.func = dedup_patterns(node.func, order),
                        !.arg = dedup_patterns(node.arg, order)]
      [] OTHER -> node

\* match_merger.rs
RECURSIVE is_simple_union(_)
is_simple_union(exp) ==
    CASE exp.k = "Union" -> is_simple_union(exp.lhs) /\ is_simple_union(exp.rhs)
      [] exp.k = "Symbol" -> TRUE
      [] OTHER -> FALSE

\* matches: the symbols of inner_pat when inner_exp meets pat, {} for None.
\* matches taking every inner arm as matching.
matches_all(pat, inner_pat, inner_exp) == union_to_set(inner_pat.u, {}).set

matches(pat, inner_pat, inner_exp) ==
    LET set1 == union_to_set(pat, {})
        set2 == union_to_set(inner_exp, {})
    IN  IF set1.ok /\ set2.ok /\ set1.set \cap set2.set # {}
        THEN union_to_set(inner_pat.u, {}).set
        ELSE {}

RECURSIVE merge_matches(_, _)
merge_matches(node, order) ==
    CASE node.k = "Union" ->
            [node EXCEPT !.lhs = merge_matches(node.lhs, order),
                        !.rhs = merge_matches(node.rhs, order)]
      [] node.k = "Match" ->
            LET exp == merge_matches(node.exp, order)
                merged ==
                    /\ exp.k = "Match"
                    /\ \A i \in DOMAIN node.arms :
                        node.arms[i].catch_id = None /\ is_simple_union(node.arms[i].pat.u)
                    /\ \A j \in DOMAIN exp.arms :
                        exp.arms[j].catch_id = None /\ is_simple_union(exp.arms[j].exp)
                NewArm(arm) ==
                    LET pat == merge_matches(arm.pat.u, order)
                        set == UNION {matches(pat, exp.arms[j].pat, exp.arms[j].exp) :
                                        j \in DOMAIN exp.arms}
                    IN  IF set # {}
                        THEN <<Arm(None, PatUnion(union_from_set(set, pat.typ, order)), arm.exp)>>
                        ELSE <<>>
            IN  IF merged
                THEN Match(exp.exp, Flatten([i \in DOMAIN node.arms |-> NewArm(node.arms[i])]),
                           node.typ)
                ELSE Match(exp,
                           [i \in DOMAIN node.arms |->
                               Arm(node.arms[i].catch_id,
                                   PatUnion(merge_matches(node.arms[i].pat.u, order)),
                                   merge_matches(node.arms[i].exp, order))],
                           node.typ)
      [] node.k = "Function" -> [node EXCEPT !.exp = merge_matches(node.exp, order)]
      [] node.k = "Application" ->
            [node EXCEPT !.func = merge_matches(node.func, order),
                        !.arg = merge_matches(node.arg, order)]
      [] OTHER -> node

\* get_remover.rs; the alphabet is Letters.
remove_gets(node, order) ==
    IF node.k = "Application" /\ node.func.k = "Identifier" /\ node.func.id = "get"
    THEN Match(node.arg,
               [i \in DOMAIN order |-> Arm(None, PatUnion(Symbol(order[i])), Symbol(order[i]))],
               node.typ)
    ELSE node

\* match_deduper.rs
is_set(func, sym) ==
    /\ sym # None
    /\ func.k = "Application"
    /\ func.func.k = "Identifier" /\ func.arg.k = "Symbol"
    /\ func.arg.sym = sym /\ func.func.id = "set"

\* match_deduper.rs, traverse
RECURSIVE dedup_traverse(_, _, _)
dedup_traverse(node, id, sym) ==
    CASE node.k = "Match" ->
            LET kept == SelectSeq(node.arms, LAMBDA arm : arm.catch_id # id)
            IN  Match(IF node.exp.k = "Identifier" /\ node.exp.id = id
                      THEN Identifier("get", node.exp.typ)
                      ELSE node.exp,
                      [i \in DOMAIN kept |->
                          Arm(kept[i].catch_id,
                              PatUnion(dedup_traverse(kept[i].pat.u, id, sym)),
                              dedup_traverse(kept[i].exp, id, sym))],
                      node.typ)
      [] node.k = "Function" ->
            IF node.param # id THEN [node EXCEPT !.exp = dedup_traverse(node.exp, id, sym)]
            ELSE node
      [] node.k = "Application" ->
            IF node.arg.k = "Identifier" /\ node.arg.id = id /\ is_set(node.func, sym)
            THEN Identifier(id, node.typ)
            ELSE [node EXCEPT !.func = dedup_traverse(node.func, id, sym),
                             !.arg = dedup_traverse(node.arg, id, sym)]
      [] OTHER -> node

\* match_deduper.rs, dedup_matches: the match it hands to remove_captures,
\* every arm catching the symbol read as `get`.
catch_get(node) ==
    Match(node.exp,
          [i \in DOMAIN node.arms |->
              Arm("get", node.arms[i].pat,
                  dedup_traverse(node.arms[i].exp, node.exp.id,
                                 IF node.arms[i].pat.u.k = "Symbol"
                                 THEN node.arms[i].pat.u.sym ELSE None))],
          node.typ)

dedup_matches(node, order) ==
    IF node.k = "Match" /\ node.exp.k = "Identifier" /\ node.exp.typ = TTape
    THEN remove_captures(catch_get(node), order)
    ELSE node

\* arm_merger.rs: the loop over j, for the arm i; found is whether an arm of an
\* equivalent expression was met.
RECURSIVE MergeInto(_, _, _, _)
MergeInto(arms, i, j, order) ==
    IF j > Len(arms) THEN [arms |-> arms, found |-> FALSE]
    ELSE IF eq_ignore_annot(arms[i].exp, arms[j].exp) THEN
        LET pati == union_to_set(arms[i].pat.u, {})
            patj == union_to_set(arms[j].pat.u, pati.set)
            new == IF pati.ok /\ patj.ok
                   THEN union_from_set(patj.set, arms[j].pat.u.typ, order)
                   ELSE Panic
        IN  [MergeInto([arms EXCEPT ![j].pat = PatUnion(new)], i, j + 1, order)
                EXCEPT !.found = TRUE]
    ELSE MergeInto(arms, i, j + 1, order)

\* arm_merger.rs
merge_arms(node, order) ==
    IF node.k # "Match" THEN node
    ELSE LET RECURSIVE From(_, _)
             From(arms, i) ==
                 IF i > Len(arms) THEN <<>>
                 ELSE LET r == MergeInto(arms, i, i + 1, order)
                      IN  (IF r.found THEN <<>> ELSE <<arms[i]>>) \o From(r.arms, i + 1)
         IN  [node EXCEPT !.arms = From(node.arms, 1)]

\* main.rs, lines 134-138
ownership_transform(e, order) == remove_trivial(Strict(apply(e, "ownership", order)))

\* The passes of final_transform, in the order of main.rs, lines 166-175.
FinalPasses == 10

\* main.rs, lines 166-175: the i-th pass of final_transform
final_pass(i, e, order) ==
    CASE i = 1 -> Strict(remove_captures(e, order))
      [] i = 2 -> Strict(apply(e, "final", order))
      [] i = 3 -> remove_trivial(e)
      [] i = 4 -> move_matches(e)
      [] i = 5 -> match_const(e)
      [] i = 6 -> dedup_patterns(e, order)
      [] i = 7 -> merge_matches(e, order)
      [] i = 8 -> remove_gets(e, order)
      [] i = 9 -> Strict(dedup_matches(e, order))
      [] i = 10 -> Strict(merge_arms(e, order))

\* main.rs, lines 166-176: e after the first `upto` passes of final_transform
RECURSIVE final_passes(_, _, _)
final_passes(e, upto, order) ==
    IF upto = 0 THEN e ELSE final_pass(upto, final_passes(e, upto - 1, order), order)

\* main.rs, lines 162-179
final_transform(e, order) == final_passes(e, FinalPasses, order)

\* Exp::transform: the node with f applied to its sub-expressions, before f is
\* applied to the node itself.
transformed_children(e, pass, order) ==
    CASE e.k = "Union" ->
            [e EXCEPT !.lhs = transform(e.lhs, pass, order),
                      !.rhs = transform(e.rhs, pass, order)]
      [] e.k = "Match" ->
            Match(transform(e.exp, pass, order),
                  [i \in DOMAIN e.arms |->
                      Arm(e.arms[i].catch_id,
                          PatUnion(transform(e.arms[i].pat.u, pass, order)),
                          transform(e.arms[i].exp, pass, order))],
                  e.typ)
      [] e.k = "Function" -> [e EXCEPT !.exp = transform(e.exp, pass, order)]
      [] e.k = "Application" ->
            [e EXCEPT !.func = transform(e.func, pass, order),
                      !.arg = transform(e.arg, pass, order)]
      [] OTHER -> e

\* Exp::transform by ownership_transform or by final_transform.
transform(e, pass, order) ==
    LET n == transformed_children(e, pass, order)
    IN  IF Panics(n) THEN Panic
        ELSE IF pass = "final" THEN final_transform(n, order)
        ELSE ownership_transform(n, order)

(***************************************************************************)
(* The inputs of the simplifier: typed programs t: body whose matches are   *)
(* on a symbol, on get t, on get (next t), on a caught symbol or on a match *)
(* that gives a symbol; an arm has a catch_id or none, and a constant       *)
(* pattern of one or two symbols.  A let is the application of a function   *)
(* of a symbol.                                                            *)
(***************************************************************************)
\* The type-checked programs given to the simplifier: t: body, where body is a
\* tape expression, a let after let_remover, or a match whose arms may hold a
\* further match. env holds the symbol identifiers in scope.
SimPrograms ==
    LET GetTape == Application(GetId, TapeId, TSymbol)
        NextTape == Application(NextId, TapeId, TTape)
        SimPats == {Symbol("a"), Symbol("b"), Union(Symbol("a"), Symbol("b"))}
        SimLeaves(env) ==
            {TapeId, NextTape}
            \cup {Application(Application(SetId, s, TTapeTape), TapeId, TTape) :
                    s \in {Symbol("a")} \cup {Identifier(x, TSymbol) : x \in env}}
        SimInnerMatches(env) ==
            LET bodies == {TapeId, NextTape}
                first == {Arm(None, PatUnion(p), b) : p \in SimPats, b \in bodies}
                second == {Arm(None, PatUnion(p), b) :
                             p \in {Symbol("b"), Union(Symbol("a"), Symbol("b"))},
                             b \in bodies}
                arms == {<<f>> : f \in first}
                        \cup {<<f, g>> : f \in {x \in first : x.pat.u = Symbol("a")},
                                         g \in second}
            IN  {Match(s, as, TTape) :
                    s \in {GetTape} \cup {Identifier(x, TSymbol) : x \in env},
                    as \in arms}
        SimBodies(env) == SimLeaves(env) \cup SimInnerMatches(env)
        SimScrutinees ==
            {Symbol("a"), GetTape, Application(GetId, NextTape, TSymbol),
             Match(GetTape,
                   <<Arm(None, PatUnion(Symbol("a")), Symbol("b")),
                     Arm(None, PatUnion(Symbol("b")), Symbol("a"))>>,
                   TSymbol)}
        SimOuterArms ==
            LET first == {Arm(None, PatUnion(p), b) : p \in SimPats, b \in SimBodies({})}
                         \cup {Arm("x", PatUnion(p), b) :
                                 p \in SimPats, b \in SimBodies({"x"})}
                second == {Arm(None, PatUnion(Symbol("b")), b) : b \in {TapeId, NextTape}}
            IN  {<<f>> : f \in first} \cup {<<f, g>> : f \in first, g \in second}
        SimLets ==
            {Application(Function("s", b, TFunction(TSymbol, TTape)), e, TTape) :
                b \in {x \in SimBodies({"s"}) : uses_id(x, "s")},
                e \in {Symbol("a"), GetTape}}
    IN  {Function("t", b, TTapeTape) :
            b \in SimLeaves({}) \cup SimLets
                  \cup {Match(s, as, TTape) : s \in SimScrutinees, as \in SimOuterArms}}

InitSimplify ==
    /\ MachineIdle
    /\ mpc = "compile"
    /\ ast \in SimPrograms
    /\ OwnIdle
    /\ TypesIdle
    /\ CastIdle
    /\ ExpIdle
    /\ LexIdle
    /\ SimplifyIdle
    /\ UnionsIdle

\* compile, lines 134-180, on the type-checked program ast: ownership_transform
\* bottom-up, ownership_check, final_transform bottom-up. resolve_unions, between
\* the check and final_transform, rewrites type annotations only; the programs of
\* SimPrograms carry no unresolved union, so it leaves them as they are.
Compile ==
    /\ mpc = "compile"
    /\ \E order \in LetterOrders :
        LET e == transform(ast, "ownership", order)
            o == ownership_check(e)
            s == transform(e, "final", order)
        IN  IF e = Panic THEN sresult' = "panic" /\ simplified' = NoExp
            ELSE IF o.err # "" THEN sresult' = "Err" /\ simplified' = NoExp
            ELSE IF s = Panic THEN sresult' = "panic" /\ simplified' = NoExp
            ELSE sresult' = "Ok" /\ simplified' = s
    /\ mpc' = "done"
    /\ UNCHANGED <<mvars, ast, evars, lvars, uvars, alphabet, ovars, tvars, cvars, changed, reentries>>

NextSimplify == Compile

SpecSimplify == InitSimplify /\ [][NextSimplify]_vars

\* Whether every Match of e has an identifier of type Tape or a Symbol as its
\* scrutinee, and arms without catch_id whose patterns are unions of symbols,
\* pairwise disjoint.
RECURSIVE IsCanonical(_)
IsCanonical(e) ==
    CASE e.k = "Union" -> IsCanonical(e.lhs) /\ IsCanonical(e.rhs)
      [] e.k = "Match" ->
            /\ \/ e.exp.k = "Identifier" /\ e.exp.typ = TTape
               \/ e.exp.k = "Symbol"
            /\ \A i \in DOMAIN e.arms :
                /\ e.arms[i].catch_id = None
                /\ e.arms[i].pat.p = "Union"
                /\ union_to_set(e.arms[i].pat.u, {}).ok
                /\ IsCanonical(e.arms[i].exp)
                /\ \A j \in DOMAIN e.arms :
                    i # j => union_to_set(e.arms[i].pat.u, {}).set
                             \cap union_to_set(e.arms[j].pat.u, {}).set = {}
      [] e.k = "Function" -> IsCanonical(e.exp)
      [] e.k = "Application" -> IsCanonical(e.func) /\ IsCanonical(e.arg)
      [] OTHER -> TRUE

\* C3: the post-type simplifier, applied to a program that passed the type and
\* ownership checks, gives a program each Match of which has an identifier of
\* type Tape or a Symbol as scrutinee, no catch_id, and patterns that are unions
\* of symbols, pairwise disjoint among the arms of the Match.
C3_CanonicalForm ==
    sresult \notin {"none", "Err"} => sresult = "Ok" /\ IsCanonical(simplified)

(***************************************************************************)
(* TypeGraph::remove_cycles on its own, on the graphs remove_function_casts *)
(* leaves: casts between unresolved types, a bound of an unresolved type,   *)
(* and a function type cast to a type that is no function.                  *)
(***************************************************************************)
MaxCycleVars == 4
MaxCycleEdges == 5

CycleEdges == {q \in (0..(MaxCycleVars - 1)) \X (0..(MaxCycleVars - 1)) : q[1] # q[2]}

\* The order of the casts in TypeGraph.casts: by source then target, either way.
CycleOrders ==
    LET n == MaxCycleVars
        up == [k \in 1..(n * n) |-> <<(k - 1) \div n, (k - 1) % n>>]
    IN  {up, [k \in 1..(n * n) |-> up[n * n + 1 - k]]}

\* The casts that are no edge of the graph of unresolved types.
CycleExtras ==
    {<<>>,
     <<[from |-> Unresolved(0), to |-> Unresolved(0)]>>,
     <<[from |-> Unresolved(1), to |-> TSymbol]>>,
     <<[from |-> TFunction(Unresolved(0), Unresolved(1)), to |-> TSymbol]>>}

CycleCasts ==
    {LET es == IterOrder(E, order)
         cs == [k \in DOMAIN es |-> [from |-> Unresolved(es[k][1]),
                                       to |-> Unresolved(es[k][2])]] \o x
     IN  [k \in DOMAIN cs |-> [from |-> cs[k].from, to |-> cs[k].to, loc |-> k]] :
        E \in {F \in SUBSET CycleEdges : Cardinality(F) <= MaxCycleEdges},
        order \in CycleOrders, x \in CycleExtras}

InitCycles ==
    /\ MachineIdle
    /\ mpc = "remove_cycles"
    /\ ast = NoExp
    /\ OwnIdle
    /\ unresolved_count = MaxCycleVars
    /\ casts \in CycleCasts
    /\ recorded = casts
    /\ resolved = <<>> /\ root = NoType /\ tresult = NoErr
    /\ assigns = <<>> /\ decisions = <<>>
    /\ CastIdle
    /\ ExpIdle
    /\ LexIdle
    /\ SimplifyIdle
    /\ UnionsIdle

\* self.remove_cycles()
RemoveCycles ==
    /\ mpc = "remove_cycles"
    /\ LET g == remove_cycles([unresolved_count |-> unresolved_count, casts |-> casts,
                               resolved |-> resolved, assigns |-> <<>>])
       IN  /\ casts' = g.casts
           /\ resolved' = g.resolved
           /\ assigns' = g.assigns
    /\ mpc' = "cycles_removed"
    /\ UNCHANGED <<mvars, ast, evars, lvars, uvars, alphabet, ovars, cvars, svars,
                   unresolved_count, root, tresult, recorded, decisions>>

NextCycles == RemoveCycles

SpecCycles == InitCycles /\ [][NextCycles]_vars

\* The pairs (a, b) of unresolved types, neither with a resolution in res, with
\* a path of casts of cs from a to b.
CyclePaths(cs, res) ==
    LET live == (0..(unresolved_count - 1)) \ DOMAIN res
        step == {q \in live \X live :
                    \E k \in DOMAIN cs : /\ cs[k].from = Unresolved(q[1])
                                         /\ cs[k].to = Unresolved(q[2])}
        RECURSIVE Close(_)
        Close(R) ==
            LET more == R \cup {q \in live \X live :
                                  \E m \in live : <<q[1], m>> \in R /\ <<m, q[2]>> \in step}
            IN  IF more = R THEN R ELSE Close(more)
    IN  Close(step)

\* The unresolved types in the strongly connected component of a, paths being
\* the pairs joined by a path.
SccOf(a, paths) ==
    {a} \cup {b \in 0..(unresolved_count - 1) : <<a, b>> \in paths /\ <<b, a>> \in paths}

\* Whether the chain of resolutions from Unresolved(i) ends within k steps.
RECURSIVE AliasEnds(_, _)
AliasEnds(i, k) ==
    \/ i \notin DOMAIN resolved
    \/ resolved[i].t # "Unresolved"
    \/ k > 0 /\ AliasEnds(resolved[i].id, k - 1)

\* The unresolved types a type holds, at any depth.
RECURSIVE MentionedIn(_)
MentionedIn(typ) ==
    IF typ.t = "Unresolved" THEN {typ.id}
    ELSE IF typ.t = "Function" THEN MentionedIn(typ.arg) \cup MentionedIn(typ.ret)
    ELSE {}

\* Acyclic graph, one representative for each component with the other members
\* its aliases, and an alias map without a cycle.
CyclesMerged ==
    LET before == CyclePaths(recorded, <<>>)
        after == CyclePaths(casts, resolved)
    IN  /\ \A a \in 0..(unresolved_count - 1) : <<a, a>> \notin after
        /\ \A a \in 0..(unresolved_count - 1) :
            \E r \in SccOf(a, before) :
                /\ r \notin DOMAIN resolved
                /\ \A m \in SccOf(a, before) \ {r} :
                    m \in DOMAIN resolved /\ resolved[m] = Unresolved(r)
        /\ \A i \in 0..(unresolved_count - 1) : AliasEnds(i, unresolved_count)

\* C11 as stated: after remove_cycles the graph of casts between the unresolved
\* types without a resolution is acyclic, each strongly connected component has
\* one representative with every other member recorded as its alias, the alias
\* map has no cycle, and no remaining cast mentions a member that is not the
\* representative, at any depth of its types.
C11_CyclesRemoved ==
    mpc = "cycles_removed" =>
        /\ CyclesMerged
        /\ \A k \in DOMAIN casts :
            (MentionedIn(casts[k].from) \cup MentionedIn(casts[k].to))
                \cap DOMAIN resolved = {}

\* C11, amended: as above, and no remaining cast has a member that is not the
\* representative as its source or as its target.
C11_CyclesRemovedEndpoints ==
    mpc = "cycles_removed" =>
        /\ CyclesMerged
        /\ \A k \in DOMAIN casts :
            /\ casts[k].from.t = "Unresolved" => casts[k].from.id \notin DOMAIN resolved
            /\ casts[k].to.t = "Unresolved" => casts[k].to.id \notin DOMAIN resolved

\* Two components of two members each were merged, and a cast between the two
\* representatives remains.
C11_Witness ==
    /\ mpc = "cycles_removed"
    /\ Cardinality(DOMAIN resolved) = 2
    /\ \E a \in DOMAIN resolved : \E b \in DOMAIN resolved : resolved[a] # resolved[b]
    /\ \E k \in DOMAIN casts :
        /\ casts[k].from.t = "Unresolved" /\ casts[k].to.t = "Unresolved"
        /\ casts[k].from # casts[k].to

(***************************************************************************)
(* annotater/union_resolver.rs: resolve_unions.  A cast is the pair         *)
(* <<from, to>> of ids; id 0 is Symbol and id 1 is Union.                   *)
(***************************************************************************)
TUnresolvedUnion(id) == [t |-> "UnresolvedUnion", id |-> id]

\* fix_ids_in_type: [t, count], the type and the counter after it.
RECURSIVE fix_ids_in_type(_, _)
fix_ids_in_type(t, n) ==
    IF t.t = "Function" THEN
        LET a == fix_ids_in_type(t.arg, n)
            r == fix_ids_in_type(t.ret, a.count)
        IN  [t |-> TFunction(a.t, r.t), count |-> r.count]
    ELSE IF t = TUnresolvedUnion(0) THEN [t |-> TUnresolvedUnion(n), count |-> n + 1]
    ELSE [t |-> t, count |-> n]

\* fix_ids: [e, count], the expression and the counter after it; e is Panic at
\* the unreachable!() of the last case.
RECURSIVE fix_ids(_, _)
fix_ids(exp, n) ==
    LET annot == fix_ids_in_type(exp.typ, n)
        RECURSIVE FixArms(_, _, _)
        FixArms(arms, i, r) ==
            IF i > Len(arms) THEN r
            ELSE LET pat == IF arms[i].pat.p = "Union"
                            THEN fix_ids(arms[i].pat.u, r.count)
                            ELSE [e |-> NoExp, count |-> r.count]
                     body == fix_ids(arms[i].exp, pat.count)
                 IN  FixArms(arms, i + 1,
                        [arms |-> Append(r.arms,
                            Arm(arms[i].catch_id,
                                IF arms[i].pat.p = "Union" THEN PatUnion(pat.e) ELSE PatAny,
                                body.e)),
                         count |-> body.count])
    IN  CASE exp.k \in {"Identifier", "Symbol"} ->
                [e |-> [exp EXCEPT !.typ = annot.t], count |-> annot.count]
          [] exp.k = "Union" ->
                LET l == fix_ids(exp.lhs, annot.count)
                    r == fix_ids(exp.rhs, l.count)
                IN  [e |-> [exp EXCEPT !.lhs = l.e, !.rhs = r.e, !.typ = annot.t],
                     count |-> r.count]
          [] exp.k = "Match" ->
                LET x == fix_ids(exp.exp, annot.count)
                    as == FixArms(exp.arms, 1, [arms |-> <<>>, count |-> x.count])
                IN  [e |-> Match(x.e, as.arms, annot.t), count |-> as.count]
          [] exp.k = "Function" ->
                LET b == fix_ids(exp.exp, annot.count)
                IN  [e |-> [exp EXCEPT !.exp = b.e, !.typ = annot.t], count |-> b.count]
          [] exp.k = "Application" ->
                LET f == fix_ids(exp.func, annot.count)
                    a == fix_ids(exp.arg, f.count)
                IN  [e |-> [exp EXCEPT !.func = f.e, !.arg = a.e, !.typ = annot.t],
                     count |-> a.count]
          [] OTHER -> [e |-> Panic, count |-> annot.count]

\* collect_casts_in_type; NoType is Option::None.
RECURSIVE collect_casts_in_type(_, _)
collect_casts_in_type(from, to) ==
    IF from = NoType \/ to = NoType THEN <<>>
    ELSE IF from.t = "Function" /\ to.t = "Function" THEN
        collect_casts_in_type(to.arg, from.arg) \o collect_casts_in_type(from.ret, to.ret)
    ELSE IF from.t = "UnresolvedUnion" /\ to = TSymbol THEN << <<from.id, 0>> >>
    ELSE IF from.t = "UnresolvedUnion" /\ to = TUnion THEN << <<from.id, 1>> >>
    ELSE IF from = TSymbol /\ to.t = "UnresolvedUnion" THEN << <<0, to.id>> >>
    ELSE IF from = TUnion /\ to.t = "UnresolvedUnion" THEN << <<1, to.id>> >>
    ELSE IF from.t = "UnresolvedUnion" /\ to.t = "UnresolvedUnion" /\ from.id # to.id
    THEN << <<from.id, to.id>> >>
    ELSE <<>>

\* collect_casts: the casts pushed, in order.  ids maps the identifiers in scope
\* to their types.  A Function node has a function type and an applied
\* expression has one (the unreachable!() of lines 161 and 176 are not met).
RECURSIVE collect_casts(_, _, _)
collect_casts(exp, ids, ret_t) ==
    LET With(id, t) == [x \in DOMAIN ids \cup {id} |-> IF x = id THEN t ELSE ids[x]]
    IN  CASE exp.k = "Identifier" ->
                IF exp.id \in DOMAIN ids
                THEN collect_casts_in_type(ids[exp.id], exp.typ)
                     \o collect_casts_in_type(exp.typ, ret_t)
                ELSE <<>>
          [] exp.k = "Symbol" -> collect_casts_in_type(TSymbol, ret_t)
          [] exp.k = "Union" ->
                collect_casts(exp.lhs, ids, TUnion) \o collect_casts(exp.rhs, ids, TUnion)
                \o collect_casts_in_type(TUnion, ret_t)
          [] exp.k = "Match" ->
                collect_casts_in_type(exp.typ, ret_t)
                \o collect_casts(exp.exp, ids, TSymbol)
                \o Flatten([i \in DOMAIN exp.arms |->
                     (IF exp.arms[i].pat.p = "Union"
                      THEN collect_casts(exp.arms[i].pat.u, ids, TUnion) ELSE <<>>)
                     \o collect_casts(exp.arms[i].exp,
                                      IF exp.arms[i].catch_id # None
                                      THEN With(exp.arms[i].catch_id, TSymbol) ELSE ids,
                                      exp.typ)])
          [] exp.k = "Function" ->
                collect_casts_in_type(exp.typ, ret_t)
                \o collect_casts(exp.exp,
                                 IF exp.typ.arg.t = "UnresolvedUnion"
                                 THEN With(exp.param, exp.typ.arg) ELSE ids,
                                 exp.typ.ret)
          [] exp.k = "Application" ->
                collect_casts_in_type(exp.arg.typ, exp.func.typ.arg)
                \o collect_casts_in_type(exp.func.typ.ret, exp.typ)
                \o collect_casts_in_type(exp.typ, ret_t)
                \o collect_casts(exp.func, ids, NoType)
                \o collect_casts(exp.arg, ids, NoType)
          [] OTHER -> <<>>

\* generate_resolved, lines 199-213: one run of the for loop over the casts from
\* the k-th on; r is [types, changed, ok], ok FALSE once unreachable!() is met.
RECURSIVE ResolvePass(_, _, _)
ResolvePass(cs, k, r) ==
    IF k > Len(cs) \/ ~r.ok THEN r
    ELSE LET from == cs[k][1]
             to == cs[k][2]
         IN  IF r.types[from] = TUnresolvedUnion(0) /\ r.types[to] = TSymbol
             THEN ResolvePass(cs, k + 1, [r EXCEPT !.types[from] = TSymbol, !.changed = TRUE])
             ELSE IF r.types[from] = TUnion /\ r.types[to] = TSymbol
             THEN [r EXCEPT !.ok = FALSE]
             ELSE ResolvePass(cs, k + 1, r)

\* generate_resolved, lines 216-221.
ResolveRemaining(ts) ==
    [i \in DOMAIN ts |-> IF i >= 2 /\ ts[i] = TUnresolvedUnion(0) THEN TUnion ELSE ts[i]]

\* A generate_resolved that goes over the casts once.
generate_resolved_once(n, cs) ==
    LET r == ResolvePass(cs, 1,
                [types |-> [i \in 0..(n - 1) |-> IF i = 0 THEN TSymbol
                                                  ELSE IF i = 1 THEN TUnion
                                                  ELSE TUnresolvedUnion(0)],
                 changed |-> FALSE, ok |-> TRUE])
    IN  [ok |-> r.ok, types |-> ResolveRemaining(r.types)]

\* generate_resolved: [ok, types]; ok is FALSE when it panics.
generate_resolved(n, cs) ==
    LET RECURSIVE Loop(_)
        Loop(ts) ==
            LET r == ResolvePass(cs, 1, [types |-> ts, changed |-> FALSE, ok |-> TRUE])
            IN  IF ~r.ok \/ ~r.changed THEN r ELSE Loop(r.types)
        r == Loop([i \in 0..(n - 1) |-> IF i = 0 THEN TSymbol
                                        ELSE IF i = 1 THEN TUnion
                                        ELSE TUnresolvedUnion(0)])
    IN  [ok |-> r.ok, types |-> ResolveRemaining(r.types)]

\* remove_unresolved_in_type
RECURSIVE remove_unresolved_in_type(_, _)
remove_unresolved_in_type(t, ts) ==
    IF t.t = "Function"
    THEN TFunction(remove_unresolved_in_type(t.arg, ts), remove_unresolved_in_type(t.ret, ts))
    ELSE IF t.t = "UnresolvedUnion" THEN ts[t.id]
    ELSE t

\* remove_unresolved
RECURSIVE remove_unresolved(_, _)
remove_unresolved(exp, ts) ==
    LET annot == remove_unresolved_in_type(exp.typ, ts)
    IN  CASE exp.k \in {"Identifier", "Symbol"} -> [exp EXCEPT !.typ = annot]
          [] exp.k = "Union" ->
                [exp EXCEPT !.lhs = remove_unresolved(exp.lhs, ts),
                            !.rhs = remove_unresolved(exp.rhs, ts), !.typ = annot]
          [] exp.k = "Match" ->
                Match(remove_unresolved(exp.exp, ts),
                      [i \in DOMAIN exp.arms |->
                          Arm(exp.arms[i].catch_id,
                              IF exp.arms[i].pat.p = "Union"
                              THEN PatUnion(remove_unresolved(exp.arms[i].pat.u, ts))
                              ELSE PatAny,
                              remove_unresolved(exp.arms[i].exp, ts))],
                      annot)
          [] exp.k = "Function" ->
                [exp EXCEPT !.exp = remove_unresolved(exp.exp, ts), !.typ = annot]
          [] exp.k = "Application" ->
                [exp EXCEPT !.func = remove_unresolved(exp.func, ts),
                            !.arg = remove_unresolved(exp.arg, ts), !.typ = annot]
          [] OTHER -> Panic

\* Whether id b is reached from id a along the casts cs.
CastReaches(cs, a, b) ==
    LET edges == {cs[k] : k \in DOMAIN cs}
        RECURSIVE From(_)
        From(S) ==
            LET more == S \cup {q[2] : q \in {x \in edges : x[1] \in S}}
            IN  IF more = S THEN S ELSE From(more)
    IN  b \in From({a})

\* What the type check leaves: no union flows to where a symbol is wanted, so
\* id 0 (Symbol) is not reached from id 1 (Union).
UnionsChecked(node) ==
    LET f == fix_ids(node, 2)
    IN  ~CastReaches(collect_casts(f.e, <<>>, NoType), 1, 0)

\* The programs resolve_unions is given: s: body, with s a symbol, a union or
\* undecided, and body an identifier, a symbol, a union, or a match (on s or on
\* a match on s) of a type that may be undecided.
UnionPrograms ==
    LET UU == TUnresolvedUnion(0)
        UnionLeaves ==
            {Identifier("s", UU), Identifier("s", TSymbol), Symbol("a"),
             Union(Symbol("a"), Symbol("b")), Union(Identifier("s", UU), Symbol("b"))}
        UnionInner ==
            {Match(Identifier("s", ty), <<Arm(None, PatUnion(Symbol("a")), b)>>, rt) :
                ty \in {UU, TSymbol}, b \in UnionLeaves, rt \in {UU, TSymbol, TUnion}}
        UnionOuter ==
            {Match(m, <<Arm(None, PatUnion(Symbol("a")), b)>>, rt) :
                m \in UnionInner, b \in UnionLeaves, rt \in {UU, TSymbol, TUnion}}
    IN  {p \in {Function("s", b, TFunction(pt, b.typ)) :
                  b \in UnionLeaves \cup UnionInner \cup UnionOuter, pt \in {UU, TSymbol}} :
            UnionsChecked(p)}

InitUnions ==
    /\ MachineIdle
    /\ mpc = "resolve_unions"
    /\ ast \in UnionPrograms
    /\ OwnIdle
    /\ TypesIdle
    /\ CastIdle
    /\ ExpIdle
    /\ LexIdle
    /\ SimplifyIdle
    /\ UnionsIdle

\* resolve_unions(ast)
ResolveUnions ==
    /\ mpc = "resolve_unions"
    /\ LET f == fix_ids(ast, 2)
           cs == collect_casts(f.e, <<>>, NoType)
           r == generate_resolved(f.count, cs)
       IN  /\ count' = f.count
           /\ union_casts' = cs
           /\ types' = r.types
           /\ IF r.ok /\ ~Panics(f.e)
              THEN sresult' = "Ok" /\ simplified' = remove_unresolved(f.e, r.types)
              ELSE sresult' = "panic" /\ simplified' = NoExp
    /\ mpc' = "unions_resolved"
    /\ UNCHANGED <<mvars, ast, evars, lvars, alphabet, ovars, tvars, cvars, changed, reentries>>

NextUnions == ResolveUnions

SpecUnions == InitUnions /\ [][NextUnions]_vars

\* The unresolved unions of a type, and those of the annotations of an expression.
RECURSIVE UnresolvedUnionsOf(_)
UnresolvedUnionsOf(t) ==
    IF t.t = "Function" THEN UnresolvedUnionsOf(t.arg) \cup UnresolvedUnionsOf(t.ret)
    ELSE IF t.t = "UnresolvedUnion" THEN {t.id}
    ELSE {}

RECURSIVE UnresolvedUnionsIn(_)
UnresolvedUnionsIn(e) ==
    UnresolvedUnionsOf(e.typ) \cup
    CASE e.k = "Union" -> UnresolvedUnionsIn(e.lhs) \cup UnresolvedUnionsIn(e.rhs)
      [] e.k = "Match" ->
            UnresolvedUnionsIn(e.exp)
            \cup UNION {UnresolvedUnionsIn(e.arms[i].exp) : i \in DOMAIN e.arms}
            \cup UNION {UnresolvedUnionsIn(e.arms[i].pat.u) :
                          i \in {j \in DOMAIN e.arms : e.arms[j].pat.p = "Union"}}
      [] e.k = "Function" -> UnresolvedUnionsIn(e.exp)
      [] e.k = "Application" -> UnresolvedUnionsIn(e.func) \cup UnresolvedUnionsIn(e.arg)
      [] OTHER -> {}

\* C12: generate_resolved gives Symbol to an id from 2 on exactly when id 0 is
\* reached from it along the casts, Union to every other id from 2 on, keeps
\* id 0 Symbol and id 1 Union, and does not panic on the casts of a checked
\* program; after resolve_unions no annotation holds an unresolved union.
C12_UnionsResolved ==
    mpc = "unions_resolved" =>
        /\ sresult = "Ok"
        /\ DOMAIN types = 0..(count - 1)
        /\ types[0] = TSymbol /\ types[1] = TUnion
        /\ \A i \in 2..(count - 1) :
            types[i] = IF CastReaches(union_casts, i, 0) THEN TSymbol ELSE TUnion
        /\ UnresolvedUnionsIn(simplified) = {}

\* An id became Symbol through another id, an id became Union, and the program
\* held unresolved unions.
C12_Witness ==
    /\ mpc = "unions_resolved" /\ sresult = "Ok"
    /\ UnresolvedUnionsIn(ast) # {}
    /\ \E i \in 2..(count - 1) :
        /\ types[i] = TSymbol
        /\ \A k \in DOMAIN union_casts : union_casts[k] # <<i, 0>>
    /\ \E j \in 2..(count - 1) : types[j] = TUnion

(***************************************************************************)
(* The passes of the simplifier one at a time, each on the expressions it   *)
(* can be handed.                                                          *)
(***************************************************************************)
\* abort_spreader.rs
\* spread_aborts without the spreading.
spread_aborts_keep(node) == node

spread_aborts(node) ==
    IF node.k # "Match" THEN node
    ELSE IF node.exp.k = "Abort" THEN Abort(node.typ)
    ELSE LET arms == SelectSeq(node.arms,
                        LAMBDA arm : ~(arm.pat.p = "Union" /\ arm.pat.u.k = "Abort"))
         IN  IF arms = <<>> THEN Abort(node.typ) ELSE [node EXCEPT !.arms = arms]

\* id_dedup.rs, push_id: [renames, id], the map after the push and the name given.
push_id(renames, id) ==
    LET renamed == IF id \in DOMAIN renames THEN "_" \o renames[id] ELSE id
    IN  [renames |-> [x \in DOMAIN renames \cup {id} |->
                        IF x = id THEN renamed ELSE renames[x]],
         id |-> renamed]

\* id_dedup.rs, get_id
get_id(renames, id) == IF id \in DOMAIN renames THEN renames[id] ELSE id

\* id_dedup.rs, traverse
RECURSIVE dedup_ids_traverse(_, _)
dedup_ids_traverse(node, renames) ==
    CASE node.k = "Identifier" -> [node EXCEPT !.id = get_id(renames, node.id)]
      [] node.k = "Union" ->
            [node EXCEPT !.lhs = dedup_ids_traverse(node.lhs, renames),
                        !.rhs = dedup_ids_traverse(node.rhs, renames)]
      [] node.k = "Match" ->
            Match(dedup_ids_traverse(node.exp, renames),
                  [i \in DOMAIN node.arms |->
                      LET arm == node.arms[i]
                          pushed == IF arm.catch_id # None THEN push_id(renames, arm.catch_id)
                                    ELSE [renames |-> renames, id |-> None]
                      IN  Arm(pushed.id,
                              IF arm.pat.p = "Union"
                              THEN PatUnion(dedup_ids_traverse(arm.pat.u, renames))
                              ELSE PatAny,
                              dedup_ids_traverse(arm.exp, pushed.renames))],
                  node.typ)
      [] node.k = "Function" ->
            LET pushed == push_id(renames, node.param)
            IN  [node EXCEPT !.param = pushed.id,
                             !.exp = dedup_ids_traverse(node.exp, pushed.renames)]
      [] node.k = "Application" ->
            [node EXCEPT !.func = dedup_ids_traverse(node.func, renames),
                        !.arg = dedup_ids_traverse(node.arg, renames)]
      [] OTHER -> node

\* id_dedup.rs, dedup_ids
dedup_ids(node) == dedup_ids_traverse(node, <<>>)

\* Exp::collect_symbols: the symbols inserted.
RECURSIVE collect_symbols(_)
collect_symbols(node) ==
    CASE node.k = "Symbol" -> {node.sym}
      [] node.k = "Match" ->
            collect_symbols(node.exp)
            \cup UNION {collect_symbols(node.arms[i].exp) : i \in DOMAIN node.arms}
            \cup UNION {collect_symbols(node.arms[i].pat.u) :
                          i \in {j \in DOMAIN node.arms : node.arms[j].pat.p = "Union"}}
      [] node.k = "Function" -> collect_symbols(node.exp)
      [] node.k = "Application" -> collect_symbols(node.func) \cup collect_symbols(node.arg)
      [] OTHER -> {}

\* any_remover.rs; generate_union builds what Exp::union_from_set builds, and
\* panics on the unwrap when the alphabet is empty.
RECURSIVE remove_any(_, _, _)
remove_any(node, alph, order) ==
    CASE node.k = "Union" ->
            [node EXCEPT !.lhs = remove_any(node.lhs, alph, order),
                        !.rhs = remove_any(node.rhs, alph, order)]
      [] node.k = "Match" ->
            Match(remove_any(node.exp, alph, order),
                  [i \in DOMAIN node.arms |->
                      Arm(node.arms[i].catch_id,
                          IF node.arms[i].pat.p = "Union"
                          THEN PatUnion(remove_any(node.arms[i].pat.u, alph, order))
                          ELSE PatUnion(IF alph = {} THEN Panic
                                        ELSE union_from_set(alph, node.arms[i].exp.typ, order)),
                          remove_any(node.arms[i].exp, alph, order))],
                  node.typ)
      [] node.k = "Function" -> [node EXCEPT !.exp = remove_any(node.exp, alph, order)]
      [] node.k = "Application" ->
            [node EXCEPT !.func = remove_any(node.func, alph, order),
                        !.arg = remove_any(node.arg, alph, order)]
      [] OTHER -> node

\* let_remover.rs, traverse: defs maps the names bound by the lets in scope to
\* their expressions, lets removed.
RECURSIVE let_remover_traverse(_, _)
let_remover_traverse(node, defs) ==
    CASE node.k = "Union" ->
            [node EXCEPT !.lhs = let_remover_traverse(node.lhs, defs),
                        !.rhs = let_remover_traverse(node.rhs, defs)]
      [] node.k = "Match" ->
            Match(let_remover_traverse(node.exp, defs),
                  [i \in DOMAIN node.arms |->
                      Arm(node.arms[i].catch_id,
                          IF node.arms[i].pat.p = "Union"
                          THEN PatUnion(let_remover_traverse(node.arms[i].pat.u, defs))
                          ELSE PatAny,
                          let_remover_traverse(
                              node.arms[i].exp,
                              [x \in DOMAIN defs \ {node.arms[i].catch_id} |-> defs[x]]))],
                  node.typ)
      [] node.k = "Let" ->
            LET RECURSIVE Defined(_, _)
                Defined(i, ds) ==
                    IF i > Len(node.binds) THEN ds
                    ELSE Defined(i + 1,
                                [x \in DOMAIN ds \cup {node.binds[i].id} |->
                                    IF x = node.binds[i].id
                                    THEN let_remover_traverse(node.binds[i].exp, ds)
                                    ELSE ds[x]])
            IN  let_remover_traverse(node.exp, Defined(1, defs))
      [] node.k = "Function" ->
            [node EXCEPT !.exp = let_remover_traverse(node.exp,
                                                      [x \in DOMAIN defs \ {node.param} |->
                                                          defs[x]])]
      [] node.k = "Application" ->
            [node EXCEPT !.func = let_remover_traverse(node.func, defs),
                        !.arg = let_remover_traverse(node.arg, defs)]
      [] node.k = "Identifier" -> IF node.id \in DOMAIN defs THEN defs[node.id] ELSE node
      [] OTHER -> node

\* let_remover.rs, remove_lets
remove_lets(node) == let_remover_traverse(node, <<>>)

\* applier.rs, traverse: the expression and whether `changed` was set.  The
\* panic of line 50 is the node Panic.
RECURSIVE do_applications_traverse(_, _)
do_applications_traverse(node, defs) ==
    LET tr(x) == do_applications_traverse(x, defs)
    IN  CASE node.k = "Union" ->
                LET l == tr(node.lhs)
                    r == tr(node.rhs)
                IN  [e |-> [node EXCEPT !.lhs = l.e, !.rhs = r.e],
                     changed |-> l.changed \/ r.changed]
          [] node.k = "Match" ->
                LET x == tr(node.exp)
                    pats == [i \in DOMAIN node.arms |->
                               IF node.arms[i].pat.p = "Union" THEN tr(node.arms[i].pat.u)
                               ELSE [e |-> NoExp, changed |-> FALSE]]
                    exps == [i \in DOMAIN node.arms |-> tr(node.arms[i].exp)]
                IN  [e |-> Match(x.e,
                                 [i \in DOMAIN node.arms |->
                                     Arm(node.arms[i].catch_id,
                                         IF node.arms[i].pat.p = "Union"
                                         THEN PatUnion(pats[i].e) ELSE PatAny,
                                         exps[i].e)],
                                 node.typ),
                     changed |-> \/ x.changed
                                 \/ \E i \in DOMAIN node.arms :
                                        pats[i].changed \/ exps[i].changed]
          [] node.k = "Function" ->
                LET b == tr(node.exp)
                IN  [e |-> [node EXCEPT !.exp = b.e], changed |-> b.changed]
          [] node.k = "Application" ->
                LET func == tr(node.func)
                    arg == tr(node.arg)
                IN  IF Panics(func.e) \/ func.e.typ.t # "Function"
                    THEN [e |-> Panic, changed |-> func.changed \/ arg.changed]
                    ELSE IF /\ func.e.typ.arg # TTape \/ func.e.typ.ret # TTape
                            /\ func.e.k = "Function"
                    THEN [e |-> do_applications_traverse(
                                    func.e.exp,
                                    [x \in DOMAIN defs \cup {func.e.param} |->
                                        IF x = func.e.param THEN arg.e ELSE defs[x]]).e,
                          changed |-> TRUE]
                    ELSE LET again == tr(func.e)
                         IN  [e |-> Application(again.e, arg.e, node.typ),
                              changed |-> func.changed \/ arg.changed \/ again.changed]
          [] node.k = "Identifier" ->
                [e |-> IF node.id \in DOMAIN defs THEN defs[node.id] ELSE node,
                 changed |-> FALSE]
          [] OTHER -> [e |-> node, changed |-> FALSE]

\* do_applications that reduces nothing.
do_applications_none(node) == [e |-> node, changed |-> FALSE]

\* applier.rs, do_applications
do_applications(node) == do_applications_traverse(node, <<>>)

\* The letters of the patterns handed to a pass, and the orders in which a
\* HashSet of them is iterated.
PassLetters == {"a", "b", "c"}

PassOrders ==
    {o \in [1..Cardinality(PassLetters) -> PassLetters] :
        \A x \in PassLetters : \E i \in DOMAIN o : o[i] = x}

\* The letters remove_any can meet, with the blank, and their orders.
AnyOrders ==
    {o \in [1..3 -> {"", "a", "x"}] : \A x \in {"", "a", "x"} : \E i \in DOMAIN o : o[i] = x}

\* The expressions handed to each pass.
PassInputs(pass) ==
    LET T == TapeId
        NextT == Application(NextId, T, TTape)
        GetT == Application(GetId, T, TSymbol)
        SetX == Application(Application(SetId, Identifier("x", TSymbol), TTapeTape), T, TTape)
        Seqs(S, n) == UNION {[1..k -> S] : k \in 0..n}
        Sym(x) == PatUnion(Symbol(x))
        AB == PatUnion(Union(Symbol("a"), Symbol("b")))
        BC == PatUnion(Union(Symbol("b"), Symbol("c")))
        ABC == PatUnion(Union(Union(Symbol("a"), Symbol("b")), Symbol("c")))
        Small == Match(T, <<Arm(None, Sym("a"), T)>>, TTape)
        Large == Match(T, <<Arm(None, Sym("a"), T), Arm(None, Sym("b"), NextT)>>, TTape)
        Overlap == Match(T, <<Arm(None, Sym("a"), T), Arm(None, AB, NextT)>>, TTape)
        Id(x) == Identifier(x, NoType)
        Fun(x, e) == Function(x, e, NoType)
        Funs == {Fun(x, Id(y)) : x \in {"x", "y"}, y \in {"x", "y"}}
    IN  CASE pass = "spread_aborts" ->
              {T} \cup
              {Match(x, as, TTape) :
                 x \in {Abort(TSymbol), GetT},
                 as \in Seqs({Arm(None, q, b) :
                                q \in {Sym("a"), Sym("b"), PatUnion(Abort(TUnion))},
                                b \in {Abort(TTape), T}}, 2)}
          [] pass = "match_const" ->
              {Match(x, as, TTape) :
                 x \in {Symbol("a"), Symbol("b"), Symbol("c"), GetT},
                 as \in Seqs({Arm(None, Sym(q), b) : q \in {"a", "b"}, b \in {T, NextT}}, 2)}
          [] pass = "dedup_ids" ->
              Funs
              \cup {Fun(x, f) : x \in {"x", "y"}, f \in Funs}
              \cup {Fun(x, Fun(y, f)) : x \in {"x"}, y \in {"x"}, f \in Funs}
              \cup {Application(f, g, NoType) : f \in Funs, g \in Funs}
              \cup {Fun(x, Match(Id("x"),
                                 <<Arm(c, Sym("a"), Id(y)), Arm(d, PatAny, Id("x"))>>, NoType)) :
                      x \in {"x", "y"}, c \in {None, "x", "y"}, d \in {None, "x"},
                      y \in {"x", "y"}}
          [] pass = "remove_any" ->
              {Function("t", Match(GetT, as, TTape), TTapeTape) :
                 as \in Seqs({Arm(None, q, b) :
                                q \in {PatAny, Sym("a"), Sym("x"),
                                       PatUnion(Union(Symbol("a"), Symbol("x")))},
                                b \in {T, NextT,
                                       Match(GetT, <<Arm(None, PatAny, T)>>, TTape)}}, 2) \ {<<>>}}
          [] pass \in {"remove_captures", "remove_captures rec"} ->
              {Match(GetT, as, TTape) :
                 as \in Seqs({Arm(c, q, b) :
                                c \in {None, "x"}, q \in {Sym("a"), AB, ABC},
                                b \in {T, SetX,
                                       Match(Identifier("x", TSymbol),
                                             <<Arm(None, Sym("a"), T),
                                               Arm(None, Sym("b"), NextT)>>, TTape),
                                       Match(GetT, <<Arm("x", Sym("b"), SetX)>>, TTape),
                                       Application(Function("x", SetX, TFunction(TSymbol, TTape)),
                                                   Identifier("x", TSymbol), TTape)}}, 2) \ {<<>>}}
          [] pass = "dedup_patterns" ->
              {Match(T, as, TTape) :
                 as \in (Seqs({Arm(None, q, b) : q \in {Sym("a"), Sym("b"), AB, BC, ABC},
                                                b \in {T, NextT, Overlap}}, 2) \ {<<>>})
                        \cup {<<Arm(None, f, T), Arm(None, g, NextT), Arm(None, h, Overlap)>> :
                                f \in {Sym("a"), AB, BC}, g \in {Sym("b"), AB, BC, ABC},
                                h \in {Sym("c"), AB, ABC}}}
          [] pass = "merge_matches" ->
              {Match(Match(T, inner, TSymbol), outer, TTape) :
                 inner \in Seqs({Arm(None, q, x) :
                                   q \in {Sym("a"), Sym("b"), Sym("c"), AB},
                                   x \in {Symbol("a"), Symbol("b"), AB.u}}, 2)
                           \ {<<>>},
                 outer \in {<<Arm(None, f, T)>> : f \in {Sym("a"), Sym("b"), AB}}
                           \cup {<<Arm(None, f, T), Arm(None, g, NextT)>> :
                                   f \in {Sym("a"), Sym("b"), AB},
                                   g \in {Sym("a"), Sym("b"), AB}}}
          [] pass = "remove_trivial" ->
              LET Bodies == {Id("x"), Id("f"), Symbol("a"),
                             Application(Id("f"), Id("x"), NoType),
                             Application(Id("x"), Id("x"), NoType),
                             Application(Id("x"), Id("f"), NoType),
                             Application(Application(Id("f"), Id("x"), NoType), Id("x"), NoType),
                             Application(Fun("x", Id("x")), Id("x"), NoType),
                             Application(Id("f"), Symbol("a"), NoType),
                             Fun("x", Id("x")), Fun("y", Id("x")),
                             Match(Id("x"), <<Arm(None, Sym("a"), Id("f"))>>, NoType),
                             Match(Id("f"), <<Arm("x", Sym("a"), Id("x"))>>, NoType)}
                  Args == {Id("y"), Id("x"), Symbol("b")}
              IN  {Application(Fun(x, e), a, NoType) : x \in {"x", "y"}, e \in Bodies, a \in Args}
                  \cup {Application(e, a, NoType) : e \in Bodies \ Funs, a \in Args}
                  \cup Bodies
          [] pass = "remove_lets" ->
              LET Bound == {Id("y"), Id("x"), Symbol("a"), Fun("y", Id("y")),
                            Application(Id("f"), Id("y"), NoType)}
                  Bodies == {Id("x"), Id("y"), Fun("y", Id("x")), Fun("x", Id("x")),
                             Fun("z", Application(Id("x"), Id("y"), NoType)),
                             Application(Id("x"), Id("x"), NoType),
                             Match(Id("x"), <<Arm("y", Sym("a"), Id("x"))>>, NoType),
                             Match(Id("y"), <<Arm("x", PatUnion(Id("x")), Id("x"))>>, NoType),
                             Match(Id("x"), <<Arm(None, PatAny, Id("y")),
                                              Arm(None, PatUnion(Id("x")), Id("x"))>>, NoType)}
                  One == {Let(<<LetBind("x", e)>>, b, NoType) : e \in Bound, b \in Bodies}
                  Two == {Let(<<LetBind("x", e), LetBind("y", g)>>, b, NoType) :
                            e \in {Id("y"), Symbol("a")}, g \in {Id("x"), Symbol("b")},
                            b \in Bodies}
                  Nested == {Let(<<LetBind("y", g)>>, l, NoType) :
                               g \in {Symbol("b"), Id("x")}, l \in One}
                            \cup {Let(<<LetBind("x", e)>>, Fun("y", Let(<<LetBind("y", g)>>, b, NoType)),
                                       NoType) :
                                     e \in {Id("y"), Symbol("a")}, g \in {Id("x"), Id("y")},
                                     b \in {Id("x"), Id("y"), Application(Id("x"), Id("y"), NoType)}}
              IN  One \cup Two \cup Nested \cup {Fun("y", l) : l \in One} \cup Bodies
          [] pass = "do_applications" ->
              LET X == Identifier("x", TSymbol)
                  Y == Identifier("y", TSymbol)
                  SymTape == TFunction(TSymbol, TTape)
                  SetOf(v) == Application(Application(SetId, v, TTapeTape), T, TTape)
                  NextU == Application(NextId, Identifier("u", TTape), TTape)
                  SetU(v) == Application(Application(SetId, v, TTapeTape),
                                         Identifier("u", TTape), TTape)
                  OnTape(b) == Application(Function("u", b, TTapeTape), T, TTape)
                  OnSym(q, b, a) == Application(Function(q, b, SymTape), a, TTape)
                  F == Identifier("f", SymTape)
                  OnFun(b, g) ==
                      Application(Function("f", b, TFunction(SymTape, TTape)), g, TTape)
                  Inner == {T, SetOf(X), OnTape(NextU), OnTape(SetU(X)),
                            OnSym("y", SetOf(Y), X), OnSym("y", SetOf(X), Symbol("b")),
                            OnSym("x", SetOf(X), Symbol("b")),
                            Match(X, <<Arm(None, Sym("a"), T),
                                       Arm(None, Sym("b"), SetOf(X))>>, TTape),
                            Match(GetT, <<Arm("x", AB, SetOf(X))>>, TTape)}
                  Plain == {T, NextT, SetOf(Symbol("a")), OnTape(NextU), OnTape(SetU(Symbol("a"))),
                            Match(GetT, <<Arm(None, Sym("a"), OnTape(NextU)),
                                          Arm(None, Sym("b"), T)>>, TTape)}
              IN  {OnSym("x", b, a) : b \in Inner, a \in {Symbol("a"), Symbol("b")}}
                  \cup {Function("t", OnSym("x", b, Symbol("a")), TTapeTape) : b \in Inner}
                  \cup {OnFun(Application(F, a, TTape), Function("y", SetOf(Y), SymTape)) :
                           a \in {Symbol("a"), Symbol("b")}}
                  \cup {OnFun(OnTape(b), Function("y", SetOf(Y), SymTape)) :
                           b \in {NextU, Application(F, Symbol("a"), TTape)}}
                  \cup Plain
                  \cup {Function("t", b, TTapeTape) : b \in Plain}
          [] pass = "merge_arms" ->
              {Match(T, as, TTape) :
                 as \in {<<Arm(None, Sym("a"), f), Arm(None, Sym("b"), g)>> :
                           f \in {T, NextT, Small, Large}, g \in {T, NextT, Small, Large}}
                        \cup {<<Arm(None, Sym("a"), f), Arm(None, Sym("b"), g),
                                Arm(None, Sym("c"), h)>> :
                                f \in {T, NextT, Small, Large}, g \in {T, NextT, Small, Large},
                                h \in {T, NextT, Small, Large}}
                        \cup {<<Arm(None, AB, f), Arm(None, Sym("c"), g)>> :
                                f \in {T, NextT, Small}, g \in {T, NextT, Small}}}

Passes ==
    {"spread_aborts", "match_const", "dedup_ids", "remove_any", "remove_captures",
     "remove_captures rec", "dedup_patterns", "merge_matches", "merge_arms",
     "remove_trivial", "do_applications", "remove_lets"}

InitPasses ==
    /\ MachineIdle
    /\ mpc \in Passes
    /\ ast \in PassInputs(mpc)
    /\ alphabet \in IF mpc = "remove_any" THEN {{"a"}, {"a", "x"}} ELSE {{}}
    /\ OwnIdle
    /\ TypesIdle
    /\ CastIdle
    /\ ExpIdle
    /\ LexIdle
    /\ SimplifyIdle
    /\ count = 0 /\ union_casts = <<>> /\ types = <<>>

\* The pass has returned e, or has panicked.
Returned(e) ==
    /\ IF Panics(e) THEN sresult' = "panic" /\ simplified' = NoExp
       ELSE sresult' = "Ok" /\ simplified' = e
    /\ mpc' = mpc \o " done"
    /\ UNCHANGED <<mvars, ast, evars, lvars, uvars, alphabet, ovars, tvars, cvars, changed, reentries>>

\* spread_aborts(ast)
SpreadAborts == mpc = "spread_aborts" /\ Returned(spread_aborts(ast))

\* match_const(ast)
MatchConst == mpc = "match_const" /\ Returned(match_const(ast))

\* dedup_ids(ast)
DedupIds == mpc = "dedup_ids" /\ Returned(dedup_ids(ast))

\* compile, lines 100-119: remove_any(e, &const_alphabet) on the whole program.
RemoveAny ==
    /\ mpc = "remove_any"
    /\ \E order \in AnyOrders :
        Returned(remove_any(ast, alphabet \cup {""} \cup collect_symbols(ast), order))

\* remove_captures(ast, rec), with rec the identity or the transform by
\* final_transform.
RemoveCaptures ==
    /\ mpc \in {"remove_captures", "remove_captures rec"}
    /\ \E order \in PassOrders :
        Returned(IF mpc = "remove_captures"
                 THEN remove_captures_rec(ast, order, "none")
                 ELSE remove_captures(ast, order))

\* dedup_patterns(ast, &mut changed)
DedupPatterns ==
    mpc = "dedup_patterns" /\ \E order \in PassOrders : Returned(dedup_patterns(ast, order))

\* merge_matches(ast, &mut changed)
MergeMatches ==
    mpc = "merge_matches" /\ \E order \in PassOrders : Returned(merge_matches(ast, order))

\* merge_arms(ast)
MergeArms ==
    mpc = "merge_arms" /\ \E order \in PassOrders : Returned(merge_arms(ast, order))

\* remove_trivial(ast)
RemoveTrivial == mpc = "remove_trivial" /\ Returned(remove_trivial(ast))

\* do_applications(ast, &mut changed), with changed false before the call
RemoveLets == mpc = "remove_lets" /\ Returned(remove_lets(ast))

DoApplications ==
    /\ mpc = "do_applications"
    /\ \E r \in {do_applications(ast)} :
          /\ IF Panics(r.e) THEN sresult' = "panic" /\ simplified' = NoExp
             ELSE sresult' = "Ok" /\ simplified' = r.e
          /\ changed' = r.changed
    /\ mpc' = "do_applications done"
    /\ UNCHANGED <<mvars, ast, evars, lvars, uvars, alphabet, ovars, tvars, cvars, reentries>>

NextPasses ==
    \/ SpreadAborts \/ MatchConst \/ DedupIds \/ RemoveAny
    \/ RemoveCaptures \/ DedupPatterns \/ MergeMatches \/ MergeArms
    \/ RemoveTrivial \/ DoApplications \/ RemoveLets

SpecPasses == InitPasses /\ [][NextPasses]_vars

AbortPattern(arm) == arm.pat.p = "Union" /\ arm.pat.u.k = "Abort"

\* C13 as stated: spread_aborts turns a Match whose scrutinee is Abort into
\* Abort, turns a Match all of whose arm bodies are Abort into Abort, and
\* leaves a Match with a non-Abort scrutinee and a non-Abort arm body a Match.
C13_AbortsSpread ==
    (mpc = "spread_aborts done" /\ ast.k = "Match") =>
        /\ ast.exp.k = "Abort" => simplified.k = "Abort"
        /\ (\A i \in DOMAIN ast.arms : ast.arms[i].exp.k = "Abort") => simplified.k = "Abort"
        /\ (ast.exp.k # "Abort" /\ \E i \in DOMAIN ast.arms : ast.arms[i].exp.k # "Abort")
              => simplified.k = "Match"

\* C13, amended: spread_aborts turns a Match into Abort exactly when its
\* scrutinee is Abort or every arm's pattern is Abort (no arm at all
\* included); otherwise the result is the Match on the same scrutinee whose
\* arms are the arms with a non-Abort pattern, in their order and with their
\* bodies, whatever the bodies are.
C13_AbortPatternsSpread ==
    (mpc = "spread_aborts done" /\ ast.k = "Match") =>
        LET kept == {i \in DOMAIN ast.arms : ~AbortPattern(ast.arms[i])}
        IN  /\ sresult = "Ok"
            /\ simplified.k = "Abort" <=> (ast.exp.k = "Abort" \/ kept = {})
            /\ simplified.k # "Abort" =>
                  /\ simplified.k = "Match"
                  /\ simplified.exp = ast.exp
                  /\ simplified.typ = ast.typ
                  /\ Len(simplified.arms) = Cardinality(kept)
                  /\ \A j \in DOMAIN simplified.arms :
                        \E i \in kept :
                            /\ simplified.arms[j] = ast.arms[i]
                            /\ Cardinality({l \in kept : l < i}) = j - 1

\* A Match whose arm bodies are all Abort and which stays a Match, having lost
\* an arm with an Abort pattern.
C13_Witness ==
    /\ mpc = "spread_aborts done"
    /\ ast.k = "Match"
    /\ ast.exp.k # "Abort"
    /\ Len(ast.arms) = 2
    /\ \A i \in DOMAIN ast.arms : ast.arms[i].exp.k = "Abort"
    /\ AbortPattern(ast.arms[1])
    /\ simplified.k = "Match"
    /\ Len(simplified.arms) = 1

\* The arms of a Match on Symbol(s) whose pattern is the symbol s.
ConstHits(node) == {i \in DOMAIN node.arms : node.arms[i].pat.u = Symbol(node.exp.sym)}

RECURSIVE BinderNames(_)
BinderNames(node) ==
    CASE node.k = "Union" -> BinderNames(node.lhs) \o BinderNames(node.rhs)
      [] node.k = "Match" ->
            BinderNames(node.exp)
            \o Flatten([i \in DOMAIN node.arms |->
                  (IF node.arms[i].catch_id # None THEN <<node.arms[i].catch_id>> ELSE <<>>)
                  \o (IF node.arms[i].pat.p = "Union" THEN BinderNames(node.arms[i].pat.u)
                      ELSE <<>>)
                  \o BinderNames(node.arms[i].exp)])
      [] node.k = "Function" -> <<node.param>> \o BinderNames(node.exp)
      [] node.k = "Application" -> BinderNames(node.func) \o BinderNames(node.arg)
      [] OTHER -> <<>>

\* For every identifier reference, by its path in the tree, the path of the
\* binder it refers to, or its name when it is free.
RECURSIVE Bindings(_, _, _)
Bindings(node, path, env) ==
    LET Bind(name) == [x \in DOMAIN env \cup {name} |-> IF x = name THEN path ELSE env[x]]
    IN  CASE node.k = "Identifier" ->
                {[ref |-> path,
                  free |-> IF node.id \in DOMAIN env THEN "" ELSE node.id,
                  binder |-> IF node.id \in DOMAIN env THEN env[node.id] ELSE <<>>]}
          [] node.k = "Union" ->
                Bindings(node.lhs, path \o <<1>>, env) \cup Bindings(node.rhs, path \o <<2>>, env)
          [] node.k = "Match" ->
                Bindings(node.exp, path \o <<0>>, env)
                \cup UNION {IF node.arms[i].pat.p = "Union"
                            THEN Bindings(node.arms[i].pat.u, path \o <<i, 1>>, env)
                            ELSE {} : i \in DOMAIN node.arms}
                \cup UNION {Bindings(node.arms[i].exp, path \o <<i, 2>>,
                                     IF node.arms[i].catch_id # None
                                     THEN [x \in DOMAIN env \cup {node.arms[i].catch_id} |->
                                             IF x = node.arms[i].catch_id THEN path \o <<i>>
                                             ELSE env[x]]
                                     ELSE env) : i \in DOMAIN node.arms}
          [] node.k = "Function" -> Bindings(node.exp, path \o <<1>>, Bind(node.param))
          [] node.k = "Application" ->
                Bindings(node.func, path \o <<1>>, env) \cup Bindings(node.arg, path \o <<2>>, env)
          [] OTHER -> {}

\* C15: after dedup_ids every binder (function parameter or arm catch_id) in
\* the tree has a name different from every other binder in the tree, and
\* every identifier reference refers to the same binder as before the pass.
C15_IdsDeduped ==
    mpc = "dedup_ids done" =>
        /\ sresult = "Ok"
        /\ LET names == BinderNames(simplified)
           IN  \A i, j \in DOMAIN names : names[i] = names[j] => i = j
        /\ Bindings(simplified, <<>>, <<>>) = Bindings(ast, <<>>, <<>>)

\* Every literal symbol of an expression, those of unions included.
RECURSIVE Literals(_)
Literals(node) ==
    CASE node.k = "Symbol" -> {node.sym}
      [] node.k = "Union" -> Literals(node.lhs) \cup Literals(node.rhs)
      [] node.k = "Match" ->
            Literals(node.exp)
            \cup UNION {Literals(node.arms[i].exp) : i \in DOMAIN node.arms}
            \cup UNION {IF node.arms[i].pat.p = "Union" THEN Literals(node.arms[i].pat.u)
                        ELSE {} : i \in DOMAIN node.arms}
      [] node.k = "Function" -> Literals(node.exp)
      [] node.k = "Application" -> Literals(node.func) \cup Literals(node.arg)
      [] OTHER -> {}

\* With `before` the expression handed to remove_any and `after` the one it
\* returned (of the same shape): no pattern of `after` is Pat::Any, every
\* pattern of `after` that was Pat::Any in `before` has exactly the letters of
\* A, and every pattern of `after` has its letters in A.
RECURSIVE AnyReplaced(_, _, _)
AnyReplaced(before, after, A) ==
    /\ after.k = before.k
    /\ CASE before.k = "Union" ->
                AnyReplaced(before.lhs, after.lhs, A) /\ AnyReplaced(before.rhs, after.rhs, A)
         [] before.k = "Match" ->
                /\ AnyReplaced(before.exp, after.exp, A)
                /\ Len(after.arms) = Len(before.arms)
                /\ \A i \in DOMAIN before.arms :
                      /\ after.arms[i].pat.p = "Union"
                      /\ union_to_set(after.arms[i].pat.u, {}).ok
                      /\ PatLetters(after.arms[i].pat) \subseteq A
                      /\ before.arms[i].pat.p = "Any" => PatLetters(after.arms[i].pat) = A
                      /\ before.arms[i].pat.p = "Union" =>
                            AnyReplaced(before.arms[i].pat.u, after.arms[i].pat.u, A)
                      /\ AnyReplaced(before.arms[i].exp, after.arms[i].exp, A)
         [] before.k = "Function" -> AnyReplaced(before.exp, after.exp, A)
         [] before.k = "Application" ->
                AnyReplaced(before.func, after.func, A) /\ AnyReplaced(before.arg, after.arg, A)
         [] OTHER -> TRUE

\* C16: after remove_any with the alphabet A (the declared alphabet, the blank
\* and every literal symbol of the program), no arm pattern anywhere in the
\* tree is Pat::Any, every former Any pattern is a union whose letter set is
\* exactly A, and every pattern letter in the tree belongs to A.
C16_AnyRemoved ==
    mpc = "remove_any done" =>
        /\ sresult = "Ok"
        /\ AnyReplaced(ast, simplified, alphabet \cup {""} \cup Literals(ast))

\* `after` is `before` with every free occurrence of the identifier id (those
\* not under a function parameter or a catch id of the same name) replaced by
\* Symbol(sym), and nothing else changed.
RECURSIVE Substituted(_, _, _, _, _)
Substituted(before, after, id, sym, shadowed) ==
    CASE before.k = "Identifier" ->
            after = IF before.id = id /\ ~shadowed THEN Symbol(sym) ELSE before
      [] before.k = "Union" ->
            /\ after.k = "Union" /\ after.typ = before.typ
            /\ Substituted(before.lhs, after.lhs, id, sym, shadowed)
            /\ Substituted(before.rhs, after.rhs, id, sym, shadowed)
      [] before.k = "Match" ->
            /\ after.k = "Match" /\ after.typ = before.typ
            /\ Substituted(before.exp, after.exp, id, sym, shadowed)
            /\ Len(after.arms) = Len(before.arms)
            /\ \A i \in DOMAIN before.arms :
                  /\ after.arms[i].catch_id = before.arms[i].catch_id
                  /\ after.arms[i].pat.p = "Union"
                  /\ Substituted(before.arms[i].pat.u, after.arms[i].pat.u, id, sym, shadowed)
                  /\ Substituted(before.arms[i].exp, after.arms[i].exp, id, sym,
                                 shadowed \/ before.arms[i].catch_id = id)
      [] before.k = "Function" ->
            /\ after.k = "Function" /\ after.typ = before.typ /\ after.param = before.param
            /\ Substituted(before.exp, after.exp, id, sym, shadowed \/ before.param = id)
      [] before.k = "Application" ->
            /\ after.k = "Application" /\ after.typ = before.typ
            /\ Substituted(before.func, after.func, id, sym, shadowed)
            /\ Substituted(before.arg, after.arg, id, sym, shadowed)
      [] OTHER -> after = before

\* The arms of `after` are those of the Match `before` with each arm that has
\* a catch id replaced, in place, by one arm per letter of its pattern, with
\* that letter as pattern, no catch id, and as body the old body with the
\* catch id replaced by the letter, or, with `final`, the transform by
\* final_transform of that; the other arms are unchanged.
CapturesSplit(before, after, final) ==
    LET BodyOk(old, new, id, x) ==
            IF ~final THEN Substituted(old, new, id, x, FALSE)
            ELSE \E e \in {new} \cup {replace_id(old, id, Symbol(x))} :
                    /\ Substituted(old, e, id, x, FALSE)
                    /\ \E order \in PassOrders : new = transform(e, "final", order)
        Size(i) == IF before.arms[i].catch_id = None THEN 1
                   ELSE Cardinality(PatLetters(before.arms[i].pat))
        RECURSIVE Start(_)
        Start(i) == IF i = 1 THEN 0 ELSE Start(i - 1) + Size(i - 1)
        n == Len(before.arms)
    IN  /\ after.k = "Match"
        /\ after.exp = before.exp
        /\ after.typ = before.typ
        /\ Len(after.arms) = Start(n) + Size(n)
        /\ \A j \in DOMAIN after.arms : after.arms[j].catch_id = None
        /\ \A i \in DOMAIN before.arms :
              IF before.arms[i].catch_id = None
              THEN after.arms[Start(i) + 1] = before.arms[i]
              ELSE /\ {after.arms[j].pat : j \in (Start(i) + 1)..(Start(i) + Size(i))}
                        = {PatUnion(Symbol(x)) : x \in PatLetters(before.arms[i].pat)}
                   /\ \A j \in (Start(i) + 1)..(Start(i) + Size(i)) :
                         BodyOk(before.arms[i].exp, after.arms[j].exp,
                                before.arms[i].catch_id, after.arms[j].pat.u.sym)

\* C17 as stated: remove_captures replaces each arm that has a catch_id and a
\* constant pattern set S by exactly |S| arms, one per letter s in S, each
\* with pattern {s}, catch_id None, and the original body with every free
\* occurrence of the catch identifier replaced by Symbol(s); arms without
\* catch_id are kept unchanged and in place, and afterwards no arm of that
\* Match has a catch_id.
C17_CapturesRemoved ==
    (mpc \in {"remove_captures done", "remove_captures rec done"} /\ sresult = "Ok") =>
        CapturesSplit(ast, simplified, FALSE)

\* C17, amended: the body of each new arm is rec applied to the original body
\* with every free occurrence of the catch identifier replaced by Symbol(s),
\* where rec is the function remove_captures was given: the substituted body
\* itself when rec is the identity, its transform by final_transform in the
\* compiler.
C17_CapturesRemovedRec ==
    /\ (mpc = "remove_captures done") =>
          /\ sresult = "Ok"
          /\ CapturesSplit(ast, simplified, FALSE)
    /\ (mpc = "remove_captures rec done" /\ sresult = "Ok") =>
          CapturesSplit(ast, simplified, TRUE)

\* An arm catching x on 'a' | 'b' whose body matches on x has been split in
\* two arms, whose bodies are the arms of that inner match chosen by rec.
C17_Witness ==
    /\ mpc = "remove_captures rec done"
    /\ sresult = "Ok"
    /\ Len(ast.arms) = 1
    /\ ast.arms[1].catch_id = "x"
    /\ PatLetters(ast.arms[1].pat) = {"a", "b"}
    /\ ast.arms[1].exp.k = "Match"
    /\ ast.arms[1].exp.exp = Identifier("x", TSymbol)
    /\ Len(simplified.arms) = 2
    /\ {simplified.arms[1].exp, simplified.arms[2].exp}
          = {ast.arms[1].exp.arms[1].exp, ast.arms[1].exp.arms[2].exp}

\* The body of the first arm of a Match whose pattern holds the letter x.
FirstBody(node, x) ==
    LET hits == {i \in DOMAIN node.arms : x \in PatLetters(node.arms[i].pat)}
    IN  IF hits = {} THEN NoExp ELSE node.arms[Min(hits)].exp

\* `after` is the Match `before` with each arm keeping exactly the letters of
\* its pattern that no earlier arm covers, the arms left without a letter
\* dropped, and the surviving arms in their order; the body of a surviving
\* arm is unchanged, or, with deep, is the original body treated in the same
\* way.  An expression that is not a Match is unchanged.
RECURSIVE PatternsDeduped(_, _, _)
PatternsDeduped(before, after, deep) ==
    IF before.k # "Match" THEN after = before
    ELSE LET Kept(i) == PatLetters(before.arms[i].pat)
                        \ UNION {PatLetters(before.arms[l].pat) : l \in 1..(i - 1)}
             surviving == {i \in DOMAIN before.arms : Kept(i) # {}}
         IN  /\ after.k = "Match"
             /\ after.typ = before.typ
             /\ IF deep THEN PatternsDeduped(before.exp, after.exp, deep)
                ELSE after.exp = before.exp
             /\ Len(after.arms) = Cardinality(surviving)
             /\ \A i \in surviving :
                   LET j == Cardinality({l \in surviving : l <= i})
                   IN  /\ after.arms[j].pat.p = "Union"
                       /\ union_to_set(after.arms[j].pat.u, {}).ok
                       /\ PatLetters(after.arms[j].pat) = Kept(i)
                       /\ IF deep
                          THEN PatternsDeduped(before.arms[i].exp, after.arms[j].exp, deep)
                          ELSE after.arms[j].exp = before.arms[i].exp
             /\ \A i, j \in DOMAIN after.arms :
                   i # j => PatLetters(after.arms[i].pat) \cap PatLetters(after.arms[j].pat) = {}

\* C18 as stated: dedup_patterns applied to a Match with constant patterns
\* yields arms whose letter sets are pairwise disjoint: each arm keeps exactly
\* the letters of its pattern not covered by any earlier arm, arms left with
\* no letter are dropped, the relative order and bodies of surviving arms are
\* unchanged, and for every letter the first-matching arm body is the same
\* before and after.
C18_PatternsDeduped ==
    mpc = "dedup_patterns done" =>
        /\ sresult = "Ok"
        /\ PatternsDeduped(ast, simplified, FALSE)
        /\ \A x \in PassLetters : FirstBody(simplified, x) = FirstBody(ast, x)

\* C18, amended: the letters, the dropped arms and the order are as stated,
\* and the body of a surviving arm is the original body with dedup_patterns
\* applied to it in turn (the body itself when it holds no Match with
\* overlapping patterns); for every letter the first-matching arm body after
\* the pass is the body of the first-matching arm before it so treated.
C18_PatternsDedupedDeep ==
    mpc = "dedup_patterns done" =>
        /\ sresult = "Ok"
        /\ PatternsDeduped(ast, simplified, TRUE)
        /\ \A x \in PassLetters :
              PatternsDeduped(FirstBody(ast, x), FirstBody(simplified, x), TRUE)

\* Of three arms the second, covered by the first, has been dropped, and the
\* third has lost letters and has a body, itself a Match with overlapping
\* patterns, that changed.
C18_Witness ==
    /\ mpc = "dedup_patterns done"
    /\ Len(ast.arms) = 3
    /\ PatLetters(ast.arms[2].pat) \subseteq PatLetters(ast.arms[1].pat)
    /\ Len(simplified.arms) = 2
    /\ PatLetters(simplified.arms[2].pat) # PatLetters(ast.arms[3].pat)
    /\ simplified.arms[2].exp # ast.arms[3].exp

\* The letters of a constant union of symbols.
LettersOf(e) == union_to_set(e, {}).set

\* What match (match e { q_i -> s_i }) { p_j -> t_j } selects for the letter
\* x: the first inner arm whose pattern holds x gives s_i, the first outer arm
\* whose set meets s_i gives t_j (meets: contains it, for a single symbol;
\* holds all its letters, with `whole`).
NestedBody(node, x, whole) ==
    LET inner == {i \in DOMAIN node.exp.arms : x \in PatLetters(node.exp.arms[i].pat)}
        s == LettersOf(node.exp.arms[Min(inner)].exp)
        outer == {j \in DOMAIN node.arms :
                    IF whole THEN s \subseteq PatLetters(node.arms[j].pat)
                    ELSE s \cap PatLetters(node.arms[j].pat) # {}}
    IN  IF inner = {} THEN NoExp
        ELSE IF outer = {} THEN NoExp
        ELSE node.arms[Min(outer)].exp

\* C19 as stated: merge_matches applied to
\* match (match e { q_i -> s_i }) { p_j -> t_j }, where no arm has a catch_id
\* and all s_i and p_j are constant unions of symbols, yields a single match
\* on e such that for every letter x the body selected by the first-matching
\* arm of the merged match is the t_j that the nested match selects for x,
\* and x matches no merged arm when the nested match selects none.
C19_MatchesMerged ==
    mpc = "merge_matches done" =>
        /\ sresult = "Ok"
        /\ simplified.k = "Match"
        /\ simplified.exp = ast.exp.exp
        /\ \A x \in PassLetters : FirstBody(simplified, x) = NestedBody(ast, x, TRUE)

\* C19, amended: the same, for inner patterns q_i that are pairwise disjoint
\* (as dedup_patterns leaves them), and with an outer arm taken as matching
\* s_i when its set shares a letter with s_i.
C19_DisjointMatchesMerged ==
    (/\ mpc = "merge_matches done"
     /\ \A i, l \in DOMAIN ast.exp.arms :
           i # l => PatLetters(ast.exp.arms[i].pat) \cap PatLetters(ast.exp.arms[l].pat) = {})
    =>  /\ sresult = "Ok"
        /\ simplified.k = "Match"
        /\ simplified.exp = ast.exp.exp
        /\ \A x \in PassLetters : FirstBody(simplified, x) = NestedBody(ast, x, FALSE)

\* Two inner arms with disjoint patterns and different results, two outer arms
\* with different bodies, merged into a match with two arms.
C19_Witness ==
    /\ mpc = "merge_matches done"
    /\ Len(ast.exp.arms) = 2
    /\ PatLetters(ast.exp.arms[1].pat) \cap PatLetters(ast.exp.arms[2].pat) = {}
    /\ ast.exp.arms[1].exp # ast.exp.arms[2].exp
    /\ Len(ast.arms) = 2
    /\ simplified.k = "Match"
    /\ simplified.exp = TapeId
    /\ Len(simplified.arms) = 2
    /\ simplified.arms[1].exp # simplified.arms[2].exp

\* All the letters of the patterns of a Match.
AllLetters(node) == UNION {PatLetters(node.arms[i].pat) : i \in DOMAIN node.arms}

\* C20: merge_arms applied to a Match with constant, pairwise disjoint
\* patterns combines any two arms whose bodies are structurally equal ignoring
\* annotations into one arm whose pattern set is the union of theirs:
\* afterwards no two arms have equal bodies, the union of all pattern letters
\* is unchanged, and every letter selects a body equal to the one it selected
\* before.  (The bodies handed to the pass carry the annotations their
\* structure determines, so bodies equal ignoring annotations are equal.)
C20_ArmsMerged ==
    (/\ mpc = "merge_arms done"
     /\ \A i, j \in DOMAIN ast.arms :
           i # j => PatLetters(ast.arms[i].pat) \cap PatLetters(ast.arms[j].pat) = {})
    =>  /\ sresult = "Ok"
        /\ simplified.k = "Match"
        /\ \A i, j \in DOMAIN simplified.arms :
              i # j => simplified.arms[i].exp # simplified.arms[j].exp
        /\ AllLetters(simplified) = AllLetters(ast)
        /\ \A x \in PassLetters : FirstBody(simplified, x) = FirstBody(ast, x)

\* The identifiers that occur free in an expression.
FreeIds(node) == {b.free : b \in Bindings(node, <<>>, <<>>)} \ {""}

\* C21: remove_trivial rewrites (x: x) a to a, (x: f x) a to f a, and
\* (x: e) a to e when x does not occur free in e, and leaves every other
\* application unchanged; in every rewritten result no occurrence of the
\* removed parameter x that was bound by the removed lambda is left free.
\* (A result carries the annotation of the application it replaces.)
C21_TrivialRemoved ==
    (mpc = "remove_trivial done" /\ ast.k = "Application") =>
        /\ sresult = "Ok"
        /\ IF ast.func.k # "Function" THEN simplified = ast
           ELSE LET x == ast.func.param
                    e == ast.func.exp
                IN  IF e = Identifier(x, e.typ) THEN simplified = [ast.arg EXCEPT !.typ = ast.typ]
                    ELSE IF e.k = "Application" /\ e.arg = Identifier(x, e.arg.typ)
                    THEN /\ simplified = Application(e.func, ast.arg, ast.typ)
                         /\ x \notin FreeIds(e.func)
                    ELSE IF x \notin FreeIds(e) THEN simplified = [e EXCEPT !.typ = ast.typ]
                    ELSE simplified = ast

\* An application of a lambda whose type is not Tape -> Tape occurs in the
\* expression.
RECURSIVE HasRedex(_)
HasRedex(node) ==
    CASE node.k = "Union" -> HasRedex(node.lhs) \/ HasRedex(node.rhs)
      [] node.k = "Match" ->
            \/ HasRedex(node.exp)
            \/ \E i \in DOMAIN node.arms :
                  \/ node.arms[i].pat.p = "Union" /\ HasRedex(node.arms[i].pat.u)
                  \/ HasRedex(node.arms[i].exp)
      [] node.k = "Function" -> HasRedex(node.exp)
      [] node.k = "Application" ->
            \/ node.func.k = "Function" /\ node.func.typ # TTapeTape
            \/ HasRedex(node.func)
            \/ HasRedex(node.arg)
      [] OTHER -> FALSE

\* Every application of `before` whose function type is Tape -> Tape is an
\* Application node with that function type at the same place of `after`,
\* where the place is followed through functions, match arms, the bodies of
\* reduced lambdas and the arguments of tape applications.
RECURSIVE TapeApplicationsKept(_, _)
TapeApplicationsKept(before, after) ==
    CASE before.k = "Function" ->
            after.k = "Function" /\ TapeApplicationsKept(before.exp, after.exp)
      [] before.k = "Match" ->
            /\ after.k = "Match"
            /\ Len(after.arms) = Len(before.arms)
            /\ \A i \in DOMAIN before.arms :
                  TapeApplicationsKept(before.arms[i].exp, after.arms[i].exp)
      [] before.k = "Application" ->
            IF before.func.typ = TTapeTape
            THEN /\ after.k = "Application"
                 /\ after.func.typ = TTapeTape
                 /\ TapeApplicationsKept(before.func, after.func)
                 /\ TapeApplicationsKept(before.arg, after.arg)
            ELSE before.func.k = "Function" => TapeApplicationsKept(before.func.exp, after)
      [] OTHER -> TRUE

\* The beta-normal form of an expression for the applications of lambdas
\* whose type is not Tape -> Tape, by substitution of the argument for the
\* free occurrences of the parameter.
RECURSIVE BetaReduced(_)
BetaReduced(node) ==
    CASE node.k = "Union" ->
            [node EXCEPT !.lhs = BetaReduced(node.lhs), !.rhs = BetaReduced(node.rhs)]
      [] node.k = "Match" ->
            Match(BetaReduced(node.exp),
                  [i \in DOMAIN node.arms |->
                      Arm(node.arms[i].catch_id,
                          IF node.arms[i].pat.p = "Union"
                          THEN PatUnion(BetaReduced(node.arms[i].pat.u)) ELSE PatAny,
                          BetaReduced(node.arms[i].exp))],
                  node.typ)
      [] node.k = "Function" -> [node EXCEPT !.exp = BetaReduced(node.exp)]
      [] node.k = "Application" ->
            LET func == BetaReduced(node.func)
                arg == BetaReduced(node.arg)
            IN  IF func.k = "Function" /\ func.typ # TTapeTape
                THEN BetaReduced(replace_id(func.exp, func.param, arg))
                ELSE Application(func, arg, node.typ)
      [] OTHER -> node

\* A binder of the expression has the name of a binder it lies in the scope
\* of (dedup_ids leaves no such binder).
RECURSIVE Shadows(_, _)
Shadows(node, bound) ==
    CASE node.k = "Union" -> Shadows(node.lhs, bound) \/ Shadows(node.rhs, bound)
      [] node.k = "Match" ->
            \/ Shadows(node.exp, bound)
            \/ \E i \in DOMAIN node.arms :
                  \/ node.arms[i].pat.p = "Union" /\ Shadows(node.arms[i].pat.u, bound)
                  \/ node.arms[i].catch_id # None /\ node.arms[i].catch_id \in bound
                  \/ Shadows(node.arms[i].exp,
                             IF node.arms[i].catch_id # None
                             THEN bound \cup {node.arms[i].catch_id} ELSE bound)
      [] node.k = "Function" ->
            node.param \in bound \/ Shadows(node.exp, bound \cup {node.param})
      [] node.k = "Application" -> Shadows(node.func, bound) \/ Shadows(node.arg, bound)
      [] OTHER -> FALSE

MaxLeaves == 3

UnionTrees ==
    LET One == {Symbol(x) : x \in PassLetters}
        Two == {Union(l, r) : l \in One, r \in One}
        Three == {Union(l, r) : l \in Two, r \in One} \cup {Union(l, r) : l \in One, r \in Two}
    IN  One \cup Two \cup Three

NotConstant == {Union(Identifier("s", TSymbol), Symbol("a")), Identifier("s", TSymbol)}

InitUnionTrip ==
    /\ MachineIdle
    /\ mpc = "union_to_set"
    /\ ast \in UnionTrees \cup NotConstant
    /\ alphabet = {}
    /\ OwnIdle
    /\ TypesIdle
    /\ CastIdle
    /\ ExpIdle
    /\ LexIdle
    /\ SimplifyIdle
    /\ UnionsIdle

\* e.union_to_set(&mut symbols), symbols being empty
UnionToSet ==
    /\ mpc = "union_to_set"
    /\ LET r == union_to_set(ast, {})
       IN  /\ collected' = r.set
           /\ mpc' = IF r.ok THEN "union_from_set" ELSE "not constant"
    /\ UNCHANGED <<mvars, ast, other, third, eq, lvars, uvars, alphabet, ovars, tvars, cvars, svars>>

\* Exp::union_from_set(&symbols, &annot), the set being iterated in any order
UnionFromSet ==
    /\ mpc = "union_from_set"
    /\ \E order \in PassOrders :
          /\ sresult' = "Ok"
          /\ simplified' = union_from_set(collected, ast.typ, order)
    /\ mpc' = "union_from_set done"
    /\ UNCHANGED <<mvars, ast, evars, lvars, uvars, alphabet, ovars, tvars, cvars, changed, reentries>>

NextUnionTrip == UnionToSet \/ UnionFromSet

SpecUnionTrip == InitUnionTrip /\ [][NextUnionTrip]_vars

\* C23 as stated: for every expression e built only from Symbol and Union
\* nodes, with S the set union_to_set fills from e, union_from_set(S) is
\* eq_ignore_annot-equal to e, and union_to_set of union_from_set(S) fills
\* exactly S.
C23_RoundTrip ==
    mpc = "union_from_set done" =>
        /\ eq_ignore_annot(simplified, ast)
        /\ union_to_set(simplified, {}) = [ok |-> TRUE, set |-> collected]

\* C23, amended: the same when e is a single Symbol or holds at least two
\* different symbols; a Union over one symbol only, as 'a' | 'a', comes back
\* as the Symbol, which eq_ignore_annot does not equate with a Union.
C23_RoundTripDistinct ==
    mpc = "union_from_set done" =>
        /\ (ast.k = "Symbol" \/ Cardinality(collected) > 1) =>
              /\ eq_ignore_annot(simplified, ast)
              /\ eq_ignore_annot(ast, simplified)
        /\ (ast.k = "Union" /\ Cardinality(collected) = 1) =>
              /\ simplified.k = "Symbol"
              /\ ~eq_ignore_annot(simplified, ast)
        /\ union_to_set(simplified, {}) = [ok |-> TRUE, set |-> collected]

\* A union of three different symbols has been rebuilt in another order and
\* nesting than it was written in.
C23_Witness ==
    /\ mpc = "union_from_set done"
    /\ ast.k = "Union"
    /\ ast.rhs.k = "Union"
    /\ collected = PassLetters
    /\ simplified.k = "Union"
    /\ simplified.lhs.k = "Union"
    /\ simplified.rhs.sym # ast.rhs.rhs.sym

(***************************************************************************)
(* The re-entries of final_transform: the calls of rec, followed one call   *)
(* chain at a time.  ast is the expression rec was handed, reentries the    *)
(* passes that handed it over.                                             *)
(***************************************************************************)
\* The deepest chain of calls of rec that is followed.
MaxReentry == 4

\* remove_captures handing the match itself to rec, for each arm with a
\* catch_id.
captured_matches(node, from) ==
    IF node.k # "Match" THEN {}
    ELSE {[from |-> from, e |-> node] : i \in {j \in DOMAIN node.arms : node.arms[j].catch_id # None}}

\* capture_remover.rs, line 37: the expressions remove_captures hands to rec,
\* for the pass `from` that called it.
captured_bodies(node, from) ==
    IF node.k # "Match" THEN {}
    ELSE UNION {IF node.arms[i].catch_id = None
                   \/ ~union_to_set(node.arms[i].pat.u, {}).ok THEN {}
                ELSE {[from |-> from,
                       e |-> replace_id(node.arms[i].exp, node.arms[i].catch_id, Symbol(x))] :
                         x \in union_to_set(node.arms[i].pat.u, {}).set} :
                i \in DOMAIN node.arms}

\* The expressions final_transform hands to rec for the node n, whose
\* sub-expressions are transformed already: from remove_captures, from apply
\* after it, and from dedup_matches after the eight first passes.
rec_calls(n, order) ==
    IF Panics(n) THEN {}
    ELSE LET e1 == final_passes(n, 1, order)
             e8 == final_passes(n, 8, order)
         IN  captured_bodies(n, "remove_captures")
             \cup (IF e1.k = "Application" /\ e1.func.k = "Function" /\ e1.func.typ # TTapeTape
                   THEN {[from |-> "apply",
                          e |-> replace_id(e1.func.exp, e1.func.param, e1.arg)]}
                   ELSE {})
             \cup (IF e8.k = "Match" /\ e8.exp.k = "Identifier" /\ e8.exp.typ = TTape
                   THEN captured_bodies(catch_get(e8), "dedup_matches")
                   ELSE {})

\* The sub-expressions of a node that Exp::transform descends into.
ChildExps(e) ==
    CASE e.k = "Union" -> {e.lhs, e.rhs}
      [] e.k = "Match" ->
            {e.exp} \cup {e.arms[i].pat.u : i \in DOMAIN e.arms}
                    \cup {e.arms[i].exp : i \in DOMAIN e.arms}
      [] e.k = "Function" -> {e.exp}
      [] e.k = "Application" -> {e.func, e.arg}
      [] OTHER -> {}

\* The calls of rec made while e is transformed by final_transform, those made
\* inside a call of rec left out.
RECURSIVE transform_rec_calls(_, _)
transform_rec_calls(e, order) ==
    UNION {transform_rec_calls(c, order) : c \in ChildExps(e)}
    \cup rec_calls(transformed_children(e, "final", order), order)

\* Programs t: (match c { 'a' > f, 'b' > g, }) e, whose application is of a
\* function only once the match on the symbol c is folded.
FoldedPrograms ==
    LET GetTape == Application(GetId, TapeId, TSymbol)
        NextTape == Application(NextId, TapeId, TTape)
        SetTape(x) == Application(Application(SetId, x, TTapeTape), TapeId, TTape)
        S == Identifier("s", TSymbol)
        Bodies ==
            {SetTape(S), NextTape,
             Match(S, <<Arm(None, PatUnion(Symbol("a")), TapeId),
                        Arm(None, PatUnion(Symbol("b")), NextTape)>>, TTape),
             Match(GetTape,
                   <<Arm("x", PatUnion(Union(Symbol("a"), Symbol("b"))),
                         Match(S, <<Arm(None, PatUnion(Symbol("a")),
                                        SetTape(Identifier("x", TSymbol))),
                                    Arm(None, PatUnion(Symbol("b")), TapeId)>>, TTape))>>,
                   TTape),
             Match(GetTape,
                   <<Arm("x", PatUnion(Union(Symbol("a"), Symbol("b"))),
                         Match(S, <<Arm(None, PatUnion(Symbol("a")),
                                        SetTape(Identifier("x", TSymbol))),
                                    Arm(None, PatUnion(Symbol("b")), NextTape)>>, TTape))>>,
                   TTape),
             Match(GetTape,
                   <<Arm(None, PatUnion(Symbol("a")),
                         Application(
                             Function("u",
                                 Match(Application(GetId, Identifier("u", TTape), TSymbol),
                                       <<Arm(None, PatUnion(Symbol("a")), Identifier("u", TTape)),
                                         Arm(None, PatUnion(S),
                                             Application(NextId, Identifier("u", TTape),
                                                         TTape))>>,
                                       TTape),
                                 TTapeTape),
                             NextTape, TTape)),
                     Arm(None, PatUnion(Symbol("b")), TapeId)>>,
                   TTape)}
        Funcs == {Function("s", b, TFunction(TSymbol, TTape)) : b \in Bodies}
    IN  {Function("t",
                  Application(Match(Symbol(c),
                                    <<Arm(None, PatUnion(Symbol("a")), f),
                                      Arm(None, PatUnion(Symbol("b")), g)>>,
                                    TFunction(TSymbol, TTape)),
                              e, TTape),
                  TTapeTape) :
            c \in Letters, f \in Funcs, g \in Funcs, e \in {Symbol("a"), Symbol("b")}}

\* The programs of SimPrograms whose first arm catches the symbol matched and
\* holds a further match.
CatchingPrograms ==
    {p \in SimPrograms :
        /\ p.exp.k = "Match"
        /\ p.exp.arms[1].catch_id # None
        /\ p.exp.arms[1].exp.k = "Match"}

InitFinal ==
    /\ MachineIdle
    /\ mpc = "ownership"
    /\ ast \in CatchingPrograms \cup FoldedPrograms
    /\ alphabet = {}
    /\ OwnIdle
    /\ TypesIdle
    /\ CastIdle
    /\ ExpIdle
    /\ LexIdle
    /\ SimplifyIdle
    /\ UnionsIdle

\* compile, lines 134-142: ownership_transform bottom-up and ownership_check
OwnershipStage ==
    /\ mpc = "ownership"
    /\ \E order \in LetterOrders :
          \E e \in {transform(ast, "ownership", order)} :
             IF e = Panic
             THEN sresult' = "panic" /\ mpc' = "done" /\ ast' = ast
             ELSE IF ownership_check(e).err # ""
             THEN sresult' = "Err" /\ mpc' = "done" /\ ast' = ast
             ELSE sresult' = "none" /\ mpc' = "transform" /\ ast' = e
    /\ UNCHANGED <<mvars, evars, lvars, uvars, alphabet, ovars, tvars, cvars, simplified, changed,
                   reentries>>

\* A call of rec made while ast is transformed: the transform of its argument
\* begins.
Reenter ==
    /\ mpc = "transform"
    /\ Len(reentries) < MaxReentry
    /\ \E order \in LetterOrders :
          \E call \in transform_rec_calls(ast, order) :
             /\ ast' = call.e
             /\ reentries' = Append(reentries, call.from)
    /\ UNCHANGED <<mvars, mpc, evars, lvars, uvars, alphabet, ovars, tvars, cvars, simplified,
                   sresult, changed>>

\* The transform of ast calls rec no more: it returns.
Return ==
    /\ mpc = "transform"
    /\ \E order \in LetterOrders :
          /\ transform_rec_calls(ast, order) = {}
          /\ \E r \in {transform(ast, "final", order)} :
                IF r = Panic THEN sresult' = "panic" /\ simplified' = NoExp
                ELSE sresult' = "Ok" /\ simplified' = r
    /\ mpc' = "returned"
    /\ UNCHANGED <<mvars, ast, evars, lvars, uvars, alphabet, ovars, tvars, cvars, changed,
                   reentries>>

NextFinal == OwnershipStage \/ Reenter \/ Return

SpecFinal == InitFinal /\ [][NextFinal]_vars

\* A step of NextFinal is possible: the ownership stage or a transform is
\* under way (ENABLED <<NextFinal>>_vars, as a predicate of the state).
Running == mpc = "ownership" \/ (mpc = "transform" /\ Len(reentries) < MaxReentry)

\* Every call is run to its end, the program being sequential: weak fairness
\* of NextFinal, WF_vars(NextFinal), with its ENABLED written as Running and
\* its step as a step that changes vars, every such step of SpecFinal being
\* one of NextFinal.
SpecFinalFair == SpecFinal /\ ([]<>(~Running) \/ []<><<TRUE>>_vars)

\* The measure of an expression: its number of nodes, of annotations that are
\* unresolved unions, of any patterns, of identifiers get, and of applications
\* of a function expression whose type is not Tape -> Tape.
RECURSIVE Tally(_, _)
Tally(e, what) ==
    LET own == CASE what = "size" -> 1
                 [] what = "unresolved_unions" ->
                        IF e.typ.t = "UnresolvedUnion" THEN 1 ELSE 0
                 [] what = "any_count" ->
                        IF e.k = "Match"
                        THEN Cardinality({i \in DOMAIN e.arms : e.arms[i].pat.p = "Any"})
                        ELSE 0
                 [] what = "get_count" ->
                        IF e.k = "Identifier" /\ e.id = "get" THEN 1 ELSE 0
                 [] what = "pending_betas" ->
                        IF e.k = "Application" /\ e.func.k = "Function"
                           /\ e.func.typ # TTapeTape THEN 1 ELSE 0
        RECURSIVE Sum(_)
        Sum(es) == IF es = <<>> THEN 0 ELSE Tally(Head(es), what) + Sum(Tail(es))
        kids == CASE e.k = "Union" -> <<e.lhs, e.rhs>>
                  [] e.k = "Match" ->
                        <<e.exp>>
                        \o Flatten([i \in DOMAIN e.arms |->
                                       IF e.arms[i].pat.p = "Union"
                                       THEN <<e.arms[i].pat.u, e.arms[i].exp>>
                                       ELSE <<e.arms[i].exp>>])
                  [] e.k = "Function" -> <<e.exp>>
                  [] e.k = "Application" -> <<e.func, e.arg>>
                  [] OTHER -> <<>>
    IN  own + Sum(kids)

Measure(e) ==
    <<Tally(e, "size"), Tally(e, "unresolved_unions"), Tally(e, "any_count"),
      Tally(e, "get_count"), Tally(e, "pending_betas")>>

\* m1 is before m2 in the lexicographic order.
RECURSIVE LexLess(_, _)
LexLess(m1, m2) ==
    /\ m1 # <<>>
    /\ \/ Head(m1) < Head(m2)
       \/ Head(m1) = Head(m2) /\ LexLess(Tail(m1), Tail(m2))

\* The sub-expressions of an expression, itself included.
RECURSIVE SubExps(_)
SubExps(e) == {e} \cup UNION {SubExps(c) : c \in ChildExps(e)}

\* The passes of final_transform that change the node n without making its
\* measure less.
Growing(n, order) ==
    {i \in 1..FinalPasses :
        \E before \in {final_passes(n, i - 1, order)} :
        \E after \in {final_pass(i, before, order)} :
            /\ ~Panics(after)
            /\ after # before
            /\ ~LexLess(Measure(after), Measure(before))}

\* Every pass that changes a node of the program being transformed makes its
\* measure less.
MeasureDecreases ==
    mpc = "transform" =>
        \A order \in LetterOrders : \A m \in SubExps(ast) :
            \E n \in {transformed_children(m, "final", order)} :
                Panics(n) \/ Growing(n, order) = {}

\* C24 as stated: final_transform, which re-enters itself through rec from
\* remove_captures, apply and dedup_matches, terminates on every type-checked,
\* ownership-checked program, and every pass that changes the tree strictly
\* decreases the measure (size, unresolved unions, any patterns, gets, pending
\* beta-reductions) in the lexicographic order.
C24_TerminatesByMeasure ==
    /\ [](Len(reentries) < MaxReentry)
    /\ <>(mpc \in {"done", "returned"})
    /\ [](MeasureDecreases)

\* C24, amended: every chain of calls of rec comes to an end, within fewer
\* than MaxReentry calls on the programs followed, so the simplification of a
\* checked program returns (or panics); the passes are not all
\* measure-decreasing.
C24_Terminates ==
    /\ [](Len(reentries) < MaxReentry)
    /\ <>(mpc \in {"done", "returned"})

\* A call of rec from apply, in it one from dedup_matches, in it another one,
\* and the innermost transform has returned.
C24_Witness ==
    /\ mpc = "returned"
    /\ sresult = "Ok"
    /\ reentries = <<"apply", "dedup_matches", "dedup_matches">>

(***************************************************************************)
(* remove_lets.                                                            *)
(***************************************************************************)
\* A nameless expression with by added to the indexes of the binders outside
\* it, those above cutoff.
RECURSIVE Shift(_, _, _)
Shift(t, by, cutoff) ==
    CASE t.k = "Bound" -> IF t.index > cutoff THEN [t EXCEPT !.index = t.index + by] ELSE t
      [] t.k = "Union" ->
            [t EXCEPT !.lhs = Shift(t.lhs, by, cutoff), !.rhs = Shift(t.rhs, by, cutoff)]
      [] t.k = "Match" ->
            [t EXCEPT !.exp = Shift(t.exp, by, cutoff),
                      !.arms = [i \in DOMAIN t.arms |->
                                  [catch |-> t.arms[i].catch,
                                   pat |-> IF t.arms[i].pat.k = "Any" THEN t.arms[i].pat
                                           ELSE Shift(t.arms[i].pat, by, cutoff),
                                   exp |-> Shift(t.arms[i].exp, by,
                                                 IF t.arms[i].catch THEN cutoff + 1
                                                 ELSE cutoff)]]]
      [] t.k = "Function" -> [t EXCEPT !.exp = Shift(t.exp, by, cutoff + 1)]
      [] t.k = "Application" ->
            [t EXCEPT !.func = Shift(t.func, by, cutoff), !.arg = Shift(t.arg, by, cutoff)]
      [] OTHER -> t

\* The meaning of an expression with lets, up to the names of its binders and
\* to annotations: `let x = e in body` stands for `(x: body) e` reduced by
\* capture-avoiding substitution.  A reference to a function parameter or a
\* catch_id is the number of binders between it and its binder, a reference to
\* a let-bound name is the meaning of the bound expression, and any other
\* reference is a free name.  scope lists the binders and the lets around the
\* expression, innermost first.
RECURSIVE Nameless(_, _)
Nameless(node, scope) ==
    LET Binders(n) == Cardinality({j \in 1..n : ~scope[j].let})
        Under(name) == <<[name |-> name, let |-> FALSE, val |-> NoExp]>> \o scope
    IN  CASE node.k = "Identifier" ->
                LET hits == {i \in DOMAIN scope : scope[i].name = node.id}
                IN  IF hits = {} THEN [k |-> "Free", id |-> node.id]
                    ELSE LET i == CHOOSE h \in hits : \A g \in hits : h <= g
                         IN  IF scope[i].let THEN Shift(scope[i].val, Binders(i - 1), 0)
                             ELSE [k |-> "Bound", index |-> Binders(i)]
          [] node.k = "Symbol" -> [k |-> "Symbol", sym |-> node.sym]
          [] node.k = "Union" ->
                [k |-> "Union", lhs |-> Nameless(node.lhs, scope),
                 rhs |-> Nameless(node.rhs, scope)]
          [] node.k = "Match" ->
                [k |-> "Match", exp |-> Nameless(node.exp, scope),
                 arms |-> [i \in DOMAIN node.arms |->
                             [catch |-> node.arms[i].catch_id # None,
                              pat |-> IF node.arms[i].pat.p = "Union"
                                      THEN Nameless(node.arms[i].pat.u, scope)
                                      ELSE [k |-> "Any"],
                              exp |-> Nameless(node.arms[i].exp,
                                               IF node.arms[i].catch_id # None
                                               THEN Under(node.arms[i].catch_id)
                                               ELSE scope)]]]
          [] node.k = "Let" ->
                LET RECURSIVE Defined(_, _)
                    Defined(i, sc) ==
                        IF i > Len(node.binds) THEN sc
                        ELSE Defined(i + 1,
                                     <<[name |-> node.binds[i].id, let |-> TRUE,
                                        val |-> Nameless(node.binds[i].exp, sc)]>> \o sc)
                IN  Nameless(node.exp, Defined(1, scope))
          [] node.k = "Function" ->
                [k |-> "Function", exp |-> Nameless(node.exp, Under(node.param))]
          [] node.k = "Application" ->
                [k |-> "Application", func |-> Nameless(node.func, scope),
                 arg |-> Nameless(node.arg, scope)]
          [] OTHER -> [k |-> node.k]

\* The expression holds a Let node.
RECURSIVE HasLet(_)
HasLet(node) ==
    CASE node.k = "Let" -> TRUE
      [] node.k = "Union" -> HasLet(node.lhs) \/ HasLet(node.rhs)
      [] node.k = "Match" ->
            \/ HasLet(node.exp)
            \/ \E i \in DOMAIN node.arms :
                  \/ node.arms[i].pat.p = "Union" /\ HasLet(node.arms[i].pat.u)
                  \/ HasLet(node.arms[i].exp)
      [] node.k = "Function" -> HasLet(node.exp)
      [] node.k = "Application" -> HasLet(node.func) \/ HasLet(node.arg)
      [] OTHER -> FALSE

\* C26: remove_lets leaves no Let node in the tree, and its result is
\* equivalent to rewriting each `let x = e in body` to `(x: body) e` with
\* capture-avoiding substitution: a reference to x rebound by an inner
\* function parameter or catch_id is not replaced, and no free variable of a
\* substituted bound expression becomes bound by a binder inside body.
C26_LetsRemoved ==
    mpc = "remove_lets done" =>
        /\ sresult = "Ok"
        /\ ~HasLet(simplified)
        /\ Nameless(simplified, <<>>) = Nameless(ast, <<>>)

(***************************************************************************)
(* Exp::eq_ignore_annot on three expressions.                              *)
(***************************************************************************)
EqExps ==
    LET X == Identifier("x", TSymbol)
        Y == Identifier("y", TTape)
        Z == Identifier("z", TTape)
        A == PatUnion(Symbol("a"))
        B == PatUnion(Symbol("b"))
        Short == Match(X, <<Arm(None, A, Y)>>, TTape)
        Long == Match(X, <<Arm(None, A, Y), Arm(None, B, Z)>>, TTape)
        Swapped == Match(X, <<Arm(None, B, Z), Arm(None, A, Y)>>, TTape)
        Bound(e, g) == Let(<<LetBind("x", e), LetBind("y", g)>>, X, TSymbol)
    IN  {X, Identifier("x", TTape), Symbol("a"), Symbol("b"), Abort(TTape),
         Union(Symbol("a"), Symbol("b")), Union(Symbol("b"), Symbol("a")),
         Union(Union(Symbol("a"), Symbol("b")), Symbol("a")),
         Short, Long, Swapped,
         Match(X, <<Arm(None, PatAny, Y)>>, TTape),
         Match(X, <<Arm("y", A, Y)>>, TTape),
         Function("x", Short, TFunction(TSymbol, TTape)),
         Function("x", Long, TFunction(TSymbol, TTape)),
         Application(Identifier("f", TTapeTape), Y, TTape),
         Let(<<LetBind("x", Symbol("a"))>>, X, TSymbol),
         Bound(Symbol("a"), Symbol("a")), Bound(Symbol("a"), Symbol("b"))}

InitEq ==
    /\ MachineIdle
    /\ mpc = "eq_ignore_annot"
    /\ ast \in EqExps
    /\ other \in EqExps
    /\ third \in EqExps
    /\ collected = {}
    /\ eq = <<>>
    /\ LexIdle
    /\ alphabet = {}
    /\ OwnIdle
    /\ TypesIdle
    /\ CastIdle
    /\ SimplifyIdle
    /\ UnionsIdle

\* a.eq_ignore_annot(b) for the pairs among ast, other and third
EqIgnoreAnnot ==
    /\ mpc = "eq_ignore_annot"
    /\ eq' = [aa |-> eq_ignore_annot(ast, ast),
              ab |-> eq_ignore_annot(ast, other),
              ba |-> eq_ignore_annot(other, ast),
              bc |-> eq_ignore_annot(other, third),
              ac |-> eq_ignore_annot(ast, third)]
    /\ mpc' = "eq_ignore_annot done"
    /\ UNCHANGED <<mvars, ast, collected, other, third, lvars, uvars, alphabet, ovars, tvars, cvars,
                   svars>>

NextEq == EqIgnoreAnnot

SpecEq == InitEq /\ [][NextEq]_vars

\* C30: eq_ignore_annot is an equivalence relation on expressions: it is
\* reflexive, symmetric and transitive; for two Match expressions a and b,
\* a.eq_ignore_annot(b) implies b.eq_ignore_annot(a), and a match is never
\* reported equal to a match with additional arms.
C30_Equivalence ==
    mpc = "eq_ignore_annot done" =>
        /\ eq.aa
        /\ eq.ab => eq.ba
        /\ (eq.ab /\ eq.bc) => eq.ac
        /\ (ast.k = "Match" /\ other.k = "Match" /\ Len(other.arms) > Len(ast.arms)) => ~eq.ab

(***************************************************************************)
(* The termination of Machine::simplify: simplify is called on a machine   *)
(* of MaxStates states and up to MaxTransitions transitions.  Inside       *)
(* simplify nothing but the loop runs, and an iteration that set `changed` *)
(* is followed by the next.                                                *)
(***************************************************************************)
Pushable ==
    {Transition(fs, fsym, ts, tsym, d) :
        fs \in 0..(MaxStates - 1), fsym \in PushLetters \cup {None},
        ts \in 0..(MaxStates - 1), tsym \in PushLetters \cup {None}, d \in Direction}

InitLoop ==
    /\ state_count = MaxStates
    /\ transitions \in UNION {[1..n -> Pushable] : n \in 0..MaxTransitions}
    /\ labels = InitialLabels \o [i \in 1..(MaxStates - 3) |-> "minted"]
    /\ mpc = "simplify"
    /\ ast = NoExp
    /\ OwnIdle
    /\ TypesIdle
    /\ CastIdle
    /\ ExpIdle
    /\ LexIdle
    /\ SimplifyIdle
    /\ UnionsIdle

NextLoop == SimplifyLoop

SpecLoop == InitLoop /\ [][NextLoop]_vars

SpecLoopFair == SpecLoop /\ ([]<>(mpc # "simplify") \/ []<><<NextLoop>>_vars)

\* C25: Machine::simplify terminates on every machine: its loop reaches an
\* iteration in which no rule (write propagation, state merge through a
\* wildcard Stay, coalescing a state of in-degree 1 and out-degree 1, self-loop
\* removal, dead-state removal) changes the machine.
\* An iteration that sets `changed` leaves another machine, so that the loop
\* never repeats on the machine it started the iteration with, and the
\* iterations, each of them a step to another state, reach the one that
\* leaves the loop.
C25_SimplifyTerminates ==
    /\ [](mpc = "simplify" =>
            (SimplifyIter(Machine).changed => SimplifyIter(Machine).m # Machine))
    /\ <>(mpc = "done" /\ ~SimplifyIter(Machine).changed)

\* C25 witness: simplify has returned after iterations that removed the
\* minted state and left one transition, which writes a symbol.
C25_Witness ==
    /\ mpc = "done"
    /\ state_count = 3
    /\ labels = InitialLabels
    /\ Len(transitions) = 1
    /\ transitions[1].to[2] # None

(***************************************************************************)
(* The behaviour of a machine on a tape: states 1 and 2 halt, a transition *)
(* reading None is enabled on every symbol, a write of None leaves the     *)
(* cell, and the cells outside the given tape are blank.                   *)
(***************************************************************************)
RunFuel == 24
TapeLen == 2
Blank == ""

Tapes == [1..TapeLen -> Letters \cup {Blank}]

\* The configuration reached from state s with the head on cell h of tape
\* cells, or "runs forever" when fuel steps do not halt the machine.
RECURSIVE Run(_, _, _, _, _)
Run(m, cells, h, s, fuel) ==
    IF s = 1 THEN [halt |-> "accept", cells |-> cells, head |-> h]
    ELSE IF s = 2 THEN [halt |-> "reject", cells |-> cells, head |-> h]
    ELSE LET on == {i \in DOMAIN m.transitions :
                       /\ m.transitions[i].from[1] = s
                       /\ m.transitions[i].from[2] \in {None, cells[h]}}
             t == m.transitions[Min(on)]
         IN  IF on = {} THEN [halt |-> "stuck"]
             ELSE IF fuel = 0 THEN [halt |-> "runs forever"]
             ELSE Run(m,
                      IF t.to[2] = None THEN cells ELSE [cells EXCEPT ![h] = t.to[2]],
                      CASE t.dir = "Left" -> h - 1 [] t.dir = "Right" -> h + 1 [] OTHER -> h,
                      t.to[1], fuel - 1)

\* The behaviour of machine m started in state 0 on the tape, head on cell h.
Behaviour(m, tape, h) ==
    LET margin == [i \in 1..RunFuel |-> Blank]
    IN  Run(m, margin \o tape \o margin, RunFuel + h, 0, RunFuel)

\* Programs in canonical form whose machine moves the head between a write
\* and a match on the tape.
MovingPrograms ==
    LET Called(n, e) == Application(Identifier(n, TTapeTape), e, TTape)
        OnlyA(body) == Function("t", Match(TapeId, <<Arm(None, PatUnion(Symbol("a")), body)>>,
                                           TTape), TTapeTape)
        SetA(e) == Application(Application(Identifier("set", TFunction(TSymbol, TTapeTape)),
                                           Symbol("a"), TTapeTape), e, TTape)
        Written == {Called(d, SetA(TapeId)) : d \in {"next", "prev"}}
                   \cup {Match(TapeId, <<Arm(None, PatUnion(Symbol("a")), Called(d, TapeId))>>,
                               TTape) : d \in {"next", "prev"}}
    IN  {Function("t", Application(OnlyA(body), w, TTape), TTapeTape) :
            body \in {TapeId, Called("accept", TapeId), Called("reject", TapeId)},
            w \in Written}

InitRun ==
    /\ state_count = MachineNew.state_count
    /\ transitions = MachineNew.transitions
    /\ labels = InitialLabels
    /\ mpc = "generate"
    /\ ast \in CanonPrograms \cup MovingPrograms
    /\ OwnIdle
    /\ TypesIdle
    /\ CastIdle
    /\ ExpIdle
    /\ LexIdle
    /\ SimplifyIdle
    /\ UnionsIdle

SpecRun == InitRun /\ [][NextGen]_vars

\* C28: Machine::simplify preserves the machine's behaviour: for every
\* machine built by the generator and every tape and head position, the
\* simplified machine reaches accept (state 1), reaches reject (state 2),
\* gets stuck, or runs forever exactly when the unsimplified machine does,
\* and on halting leaves the same tape contents and head position.
C28_BehaviourPreserved ==
    mpc = "done" =>
        \A tape \in Tapes : \A h \in 1..TapeLen :
            Behaviour(Machine, tape, h) = Behaviour(generate(ast, CHOOSE o \in LetterOrders : TRUE).m, tape, h)

(***************************************************************************)
(* lexer.rs.  A string is the sequence of its characters.  Every method of *)
(* State gives the State it leaves, whose err field is NoErr, or the Err   *)
(* the method returned.                                                    *)
(***************************************************************************)
Whitespace == {" ", "\t", "\n"}
Alphabetic == {"a", "c", "h", "i", "l", "m", "n", "o", "p", "r", "t", "x", "y"}
Numeric == {"0", "1"}

is_whitespace(chr) == chr \in Whitespace
is_alphabetic(chr) == chr \in Alphabetic
is_alphanumeric(chr) == chr \in Alphabetic \cup Numeric

PUNCTUATION ==
    {[chr |-> "(", tok |-> "LParenthesis"], [chr |-> ")", tok |-> "RParenthesis"],
     [chr |-> "{", tok |-> "LBraces"], [chr |-> "}", tok |-> "RBraces"],
     [chr |-> ":", tok |-> "Colon"], [chr |-> ">", tok |-> "Arrow"],
     [chr |-> "=", tok |-> "Assign"], [chr |-> ",", tok |-> "Comma"],
     [chr |-> "|", tok |-> "Pipe"], [chr |-> "@", tok |-> "Catch"]}

KEYWORDS ==
    {[text |-> <<"m", "a", "t", "c", "h">>, tok |-> "Match"],
     [text |-> <<"a", "n", "y">>, tok |-> "Any"],
     [text |-> <<"l", "e", "t">>, tok |-> "Let"],
     [text |-> <<"i", "n">>, tok |-> "In"]}

ImportKeyword == <<"i", "m", "p", "o", "r", "t">>

\* The libraries tokenize is given: a name and its source.
Lib == {[path |-> <<"l">>, src |-> <<"'", "x", "'">>]}

UnknownKeyword == "Unknown keyword or invalid identifier"
ExpectedPath == "Expected import path after import keyword"
NewLineInQuotes == "Found new line inside quotes"
NoImport == "Couldn't import file"

\* State::new
StateNew(import_name) ==
    [toks |-> <<>>, loc |-> [line |-> 1, col |-> 1, import |-> import_name],
     acc |-> <<>>, in_quotes |-> FALSE, is_import |-> FALSE, is_comment |-> FALSE,
     err |-> NoErr]

\* Err(format!("... '{}' ... at {}", self.acc, self.loc))
LexErr(st, kind) ==
    [st EXCEPT !.err = [kind |-> kind, text |-> st.acc, line |-> st.loc.line,
                        col |-> st.loc.col]]

\* State::push_tok
push_tok(st, tok) == [st EXCEPT !.toks = Append(@, [tok |-> tok, loc |-> st.loc])]

\* is_valid_id
is_valid_id(id) ==
    \/ id = <<"_">>
    \/ /\ is_alphabetic(id[1])
       /\ \A i \in 2..Len(id) : is_alphanumeric(id[i]) \/ id[i] = "_"

\* State::consume
consume(st) ==
    LET Cleared(s) == [s EXCEPT !.loc.col = @ + Len(s.acc), !.acc = <<>>]
        keyword == {kw \in KEYWORDS : kw.text = st.acc}
    IN  IF st.acc = <<>> THEN Cleared(st)
        ELSE IF st.is_import THEN LexErr(st, ExpectedPath)
        ELSE IF st.acc = ImportKeyword THEN Cleared([st EXCEPT !.is_import = TRUE])
        ELSE IF keyword # {}
        THEN Cleared(push_tok(st, [t |-> (CHOOSE kw \in keyword : TRUE).tok]))
        ELSE IF is_valid_id(st.acc)
        THEN Cleared(push_tok(st, [t |-> "Identifier", text |-> st.acc]))
        ELSE LexErr(st, UnknownKeyword)

RECURSIVE tokenize(_, _)

\* State::import, no directory being given: the tokens of the library are
\* appended, or the import fails.
import(st, path) ==
    LET found == {l \in Lib : l.path = path}
        inner == tokenize((CHOOSE l \in found : TRUE).src, path)
    IN  IF found = {} THEN LexErr(st, NoImport)
        ELSE IF inner.kind = "Ok" THEN [st EXCEPT !.toks = @ \o inner.toks]
        ELSE [st EXCEPT !.err = inner]

\* State::push
push(st, chr) ==
    IF st.is_comment THEN
        IF chr = "\n"
        THEN [st EXCEPT !.is_comment = FALSE, !.loc.col = 1, !.loc.line = @ + 1]
        ELSE st
    ELSE IF st.in_quotes THEN
        IF chr = "'"
        THEN LET closed == IF st.is_import
                           THEN [import(st, st.acc) EXCEPT !.is_import = FALSE]
                           ELSE push_tok(st, [t |-> "Symbol", text |-> st.acc])
             IN  IF closed.err # NoErr THEN [st EXCEPT !.err = closed.err]
                 ELSE [closed EXCEPT !.in_quotes = FALSE,
                                     !.loc.col = @ + Len(st.acc) + 2,
                                     !.acc = <<>>]
        ELSE IF chr = "\n" THEN LexErr(st, NewLineInQuotes)
        ELSE [st EXCEPT !.acc = Append(@, chr)]
    ELSE IF chr = "'" THEN
        LET s1 == consume(st)
        IN  IF s1.err # NoErr THEN s1 ELSE [s1 EXCEPT !.in_quotes = TRUE]
    ELSE IF chr = "#" THEN [st EXCEPT !.is_comment = TRUE]
    ELSE IF is_whitespace(chr) THEN
        LET s1 == consume(st)
        IN  IF s1.err # NoErr THEN s1
            ELSE IF chr = "\n" THEN [s1 EXCEPT !.loc.col = 1, !.loc.line = @ + 1]
            ELSE [s1 EXCEPT !.loc.col = @ + 1]
    ELSE IF \E p \in PUNCTUATION : p.chr = chr THEN
        LET s1 == consume(st)
            tok == (CHOOSE p \in PUNCTUATION : p.chr = chr).tok
        IN  IF s1.err # NoErr THEN s1
            ELSE [push_tok(s1, [t |-> tok]) EXCEPT !.loc.col = @ + 1]
    ELSE [st EXCEPT !.acc = Append(@, chr)]

\* What tokenize returns from a State: Ok(state.toks), or the Err.
Tokens(st) == IF st.err = NoErr THEN [kind |-> "Ok", toks |-> st.toks] ELSE st.err

\* tokenize
tokenize(text, import_name) ==
    LET RECURSIVE AfterChars(_, _)
        AfterChars(st, i) ==
            IF st.err # NoErr \/ i > Len(text) THEN st
            ELSE AfterChars(push(st, text[i]), i + 1)
        last == AfterChars(StateNew(import_name), 1)
    IN  IF last.err # NoErr THEN Tokens(last) ELSE Tokens(consume(last))

(***************************************************************************)
(* tokenize, one character at a time.                                      *)
(***************************************************************************)
MaxSrc == 4

SrcChars == {"i", "n", "1", "_", " ", "\n", "#", "'", ":"}

\* Sources with an import: of the library, of a path not in it, and with
\* something else than a path.
ImportSources ==
    {ImportKeyword \o rest : rest \in {<<" ", "'", "l", "'">>, <<" ", "'", "n", "'">>,
                                       <<" ", "n">>, <<" ", "1">>, <<"#", "\n", "n">>,
                                       <<"'", "l", "'", "n">>}}

InitLex ==
    /\ MachineIdle
    /\ mpc = "tokenize"
    /\ ast = NoExp
    /\ alphabet = {}
    /\ source \in UNION {[1..n -> SrcChars] : n \in 0..MaxSrc} \cup ImportSources
    /\ chars = source
    /\ lexer = StateNew(None)
    /\ lexed = NoErr
    /\ OwnIdle
    /\ TypesIdle
    /\ CastIdle
    /\ ExpIdle
    /\ SimplifyIdle
    /\ UnionsIdle

\* for chr in src.chars() { state.push(chr)?; }
Push ==
    /\ mpc = "tokenize"
    /\ chars # <<>>
    /\ lexer' = push(lexer, Head(chars))
    /\ chars' = Tail(chars)
    /\ lexed' = IF lexer'.err # NoErr THEN lexer'.err ELSE lexed
    /\ mpc' = IF lexer'.err # NoErr THEN "tokenize done" ELSE mpc
    /\ UNCHANGED <<mvars, ast, evars, source, uvars, alphabet, ovars, tvars, cvars, svars>>

\* state.consume()?; Ok(state.toks)
Consume ==
    /\ mpc = "tokenize"
    /\ chars = <<>>
    /\ lexer' = consume(lexer)
    /\ lexed' = Tokens(lexer')
    /\ mpc' = "tokenize done"
    /\ UNCHANGED <<mvars, ast, evars, source, chars, uvars, alphabet, ovars, tvars, cvars, svars>>

NextLex == Push \/ Consume

SpecLex == InitLex /\ [][NextLex]_vars

\* The maximal runs of characters of text that are neither whitespace,
\* punctuation, quote nor '#', outside quotes and comments, each with the line
\* and the column of its first character; a new line inside quotes ends the
\* scan.  i is the next character, at (line, col); mode is "plain", "quote" or
\* "comment"; open tells that the last run goes on.
RECURSIVE Scan(_, _, _, _, _, _, _)
Scan(text, i, line, col, mode, runs, open) ==
    IF i > Len(text) THEN runs
    ELSE LET c == text[i]
         IN  CASE mode = "comment" ->
                    IF c = "\n" THEN Scan(text, i + 1, line + 1, 1, "plain", runs, FALSE)
                    ELSE Scan(text, i + 1, line, col + 1, mode, runs, FALSE)
               [] mode = "quote" ->
                    IF c = "\n" THEN runs
                    ELSE Scan(text, i + 1, line, col + 1,
                              IF c = "'" THEN "plain" ELSE mode, runs, FALSE)
               [] OTHER ->
                    IF c = "\n" THEN Scan(text, i + 1, line + 1, 1, mode, runs, FALSE)
                    ELSE IF c = "'" THEN Scan(text, i + 1, line, col + 1, "quote", runs, FALSE)
                    ELSE IF c = "#" THEN Scan(text, i + 1, line, col + 1, "comment", runs, FALSE)
                    ELSE IF c \in Whitespace \/ (\E p \in PUNCTUATION : p.chr = c)
                    THEN Scan(text, i + 1, line, col + 1, mode, runs, FALSE)
                    ELSE IF open
                    THEN Scan(text, i + 1, line, col + 1, mode,
                              [runs EXCEPT ![Len(runs)].text = Append(@, c)], TRUE)
                    ELSE Scan(text, i + 1, line, col + 1, mode,
                              Append(runs, [text |-> <<c>>, line |-> line, col |-> col]),
                              TRUE)

Runs(text) == Scan(text, 1, 1, 1, "plain", <<>>, FALSE)

IsKeyword(text) == text = ImportKeyword \/ \E kw \in KEYWORDS : kw.text = text

\* "_", or an alphabetic character followed only by alphanumerics or '_'.
WellFormed(text) ==
    \/ text = <<"_">>
    \/ /\ text[1] \in Alphabetic
       /\ \A i \in 2..Len(text) : text[i] \in Alphabetic \cup Numeric \cup {"_"}

\* The texts of the Identifier tokens, in order.
RECURSIVE Identifiers(_)
Identifiers(toks) ==
    IF toks = <<>> THEN <<>>
    ELSE (IF toks[1].tok.t = "Identifier" THEN <<toks[1].tok.text>> ELSE <<>>)
         \o Identifiers(Tail(toks))

RECURSIVE Texts(_)
Texts(runs) == IF runs = <<>> THEN <<>> ELSE <<runs[1].text>> \o Texts(Tail(runs))

\* C27: tokenize emits Token::Identifier for a maximal run of characters that
\* are neither whitespace, punctuation, quote nor '#' exactly when the run is
\* not a keyword and is either "_" or starts with an alphabetic character
\* followed only by alphanumerics or '_'; any other non-keyword run makes
\* tokenize return Err 'Unknown keyword or invalid identifier' carrying the
\* line and column where the run starts, and no token list is returned.
\* (Sources without an import, whose path is scanned in another way.)
C27_IdentifierRuns ==
    LET runs == Runs(source)
        named == SelectSeq(runs, LAMBDA r : ~IsKeyword(r.text) /\ WellFormed(r.text))
        bad == {i \in DOMAIN runs : ~IsKeyword(runs[i].text) /\ ~WellFormed(runs[i].text)}
    IN  (mpc = "tokenize done" /\ \A i \in DOMAIN runs : runs[i].text # ImportKeyword) =>
            /\ lexed.kind = "Ok" => Identifiers(lexed.toks) = Texts(named)
            /\ bad = {} => lexed.kind \in {"Ok", NewLineInQuotes}
            /\ bad # {} =>
                  /\ lexed.kind = UnknownKeyword
                  /\ lexed.text = runs[Min(bad)].text
                  /\ lexed.line = runs[Min(bad)].line
                  /\ lexed.col = runs[Min(bad)].col

\* C29: a '#' comment separates tokens: characters accumulated before '#' and
\* characters after the comment's terminating newline are never joined into
\* one identifier or keyword; and at end of input the lexer is never left
\* inside an unterminated quote without returning an error: an unterminated
\* quoted symbol is not emitted as an identifier or keyword.
C29_CommentsSeparate ==
    /\ lexer # NoState =>
          \A i \in DOMAIN lexer.toks :
              LET tok == lexer.toks[i].tok
                  spelt == IF tok.t = "Identifier" THEN {tok.text}
                           ELSE {kw.text : kw \in {k \in KEYWORDS : k.tok = tok.t}}
              IN  (lexer.toks[i].loc.import = None /\ spelt # {}) =>
                      \E j \in DOMAIN Runs(source) : Runs(source)[j].text \in spelt
    /\ (mpc = "tokenize done" /\ chars = <<>> /\ lexer.in_quotes) =>
          lexed.kind \notin {"none", "Ok"}

====
